---- MODULE Spec2Model ----
(***************************************************************************)
(* Model of the retrieval-and-orchestration engine of the AI support agent *)
(* (Junate-World/AI_Agent): the session memory (memory/session_memory.py) *)
(* the FAISS-backed vector store (rag/vector_store.py, rag/embedded.py),   *)
(* and the orchestrator of a chat turn (app.py) with its collaborators     *)
(* (llm/ollama_client.py, tools/create_ticket.py, tools/order_status.py).  *)
(***************************************************************************)
EXTENDS Integers, Sequences, FiniteSets, TLC

VARIABLES
    \* ---- configuration (config.py), read once at import ----
    MAX_SESSION_MESSAGES,  \* config.py:34
    SESSION_TIMEOUT,       \* config.py:33
    CHUNK_SIZE,            \* config.py:22
    CHUNK_OVERLAP,         \* config.py:23
    \* ---- memory/session_memory.py ----
    now,        \* the clock read by time.time()
    sessions,   \* SessionManager.sessions: session id -> Session
    appended,   \* history variable: every message ever passed to add_message
                \* of the Session object now stored under an id
    budget,     \* number of add_message calls the model still explores
    ret,        \* the last SessionManager/Session call and what it returned
    \* ---- rag/vector_store.py ----
    index,      \* VectorStore.index: None or the IndexFlatL2
    documents,  \* VectorStore.documents
    dimension,  \* VectorStore.dimension
    disk,       \* the two artifacts under store_path
    directory,  \* the knowledge base directory: its *.md files in rglob order
    saved,      \* history variable: the store as the last complete save() wrote it
    vret,       \* the last VectorStore call and what it returned
    \* ---- request threads (app.run serves each request on its own thread) ----
    pc,         \* thread -> the statement it executes next
    local,      \* thread -> its local variables
    \* ---- app.py and its collaborators ----
    tickets,    \* TicketManager.tickets, in creation order
    turn        \* the last generate_response call: what it did and returned

cfgvars == <<MAX_SESSION_MESSAGES, SESSION_TIMEOUT, CHUNK_SIZE, CHUNK_OVERLAP>>
svars == <<now, sessions, appended, budget, ret>>
vvars == <<index, documents, dimension, disk, directory, saved, vret>>
tvars == <<pc, local>>
avars == <<tickets, turn>>
vars == <<cfgvars, svars, vvars, tvars, avars>>

\* Python's None / Optional: None is the empty tuple, a value x is <<x>>
None == <<>>
Some(x) == <<x>>

Range(s) == {s[i] : i \in DOMAIN s}

Min(a, b) == IF a < b THEN a ELSE b
Max(a, b) == IF a > b THEN a ELSE b

(***************************************************************************)
(* Bounds of the model.                                                    *)
(***************************************************************************)
MaxCap == 2        \* caps MAX_SESSION_MESSAGES explored: 1..MaxCap
MaxTime == 2       \* the clock stops advancing here
MaxAppends == 3    \* add_message calls explored in one behaviour of a session
MaxCalls == 2      \* add_message calls explored in one behaviour of the manager

SessionIds == {"s1", "s2"}
Roles == {"user", "assistant"}
Contents == {"m"}
ChatContents == {"a", "b"}
Limits == {1, 10}   \* get_recent_messages limits: a short one and the default

(***************************************************************************)
(* Python's seq[i:] for any integer i: a negative i counts from the end,   *)
(* and -0 is 0, so seq[-0:] is the whole sequence.                         *)
(***************************************************************************)
PySliceFrom(s, i) ==
    LET n == Len(s)
        start == IF i < 0 THEN Max(n + i, 0) ELSE Min(i, n)
    IN  SubSeq(s, start + 1, n)

Message(role, content, timestamp) ==
    [role |-> role, content |-> content, timestamp |-> timestamp]

\* Session.add_message's trim (session_memory.py:45-48)
Trim(messages, M) ==
    IF Len(messages) > M
    THEN <<messages[1]>> \o PySliceFrom(messages, -(M - 1))
    ELSE messages

\* Session.add_message changed to store no message of role assistant
add_message_user_only(session, role, content, t1, t2) ==
    IF role = "assistant" THEN [session EXCEPT !.last_activity = t2]
    ELSE [session EXCEPT
            !.messages = Trim(Append(session.messages, Message(role, content, t1)),
                              MAX_SESSION_MESSAGES),
            !.last_activity = t2]

\* Session.add_message: t1 and t2 are the two readings of time.time()
add_message(session, role, content, t1, t2) ==
    [session EXCEPT
        !.messages = Trim(Append(session.messages, Message(role, content, t1)),
                          MAX_SESSION_MESSAGES),
        !.last_activity = t2]

\* Session.get_recent_messages
get_recent_messages(session, limit) ==
    IF session.messages # <<>> THEN PySliceFrom(session.messages, -limit) ELSE <<>>

\* Session.is_expired at clock reading t
is_expired(session, t) == t - session.last_activity > SESSION_TIMEOUT

\* the lines logger.info writes: "Removed session: <sid>" (session_memory.py:114)
\* and "Created new session: <sid>" (session_memory.py:100)
RemovedLog(map, sids) == {<<"Removed session", sid>> : sid \in sids \cap DOMAIN map}
CreatedLog(sid) == {<<"Created new session", sid>>}

\* SessionManager.remove_session: the map afterwards
remove_session(map, sid) ==
    IF sid \in DOMAIN map
    THEN [s \in DOMAIN map \ {sid} |-> map[s]]
    ELSE map

\* the Session built by SessionManager.create_session at clock reading t
NewSession(sid, t) ==
    [session_id |-> sid, messages |-> <<>>, created_at |-> t, last_activity |-> t]

Put(map, sid, val) ==
    [s \in DOMAIN map \cup {sid} |-> IF s = sid THEN val ELSE map[s]]

RECURSIVE SumLen(_, _)
SumLen(map, ids) ==
    IF ids = {} THEN 0
    ELSE LET s == CHOOSE x \in ids : TRUE
         IN  Len(map[s].messages) + SumLen(map, ids \ {s})

\* get_session_stats changed to leave out the sessions that are expired
get_session_stats_skip_expired(map) ==
    LET live == {s \in DOMAIN map : ~is_expired(map[s], now)}
        total == SumLen(map, live)
        count == Cardinality(live)
    IN  [active_sessions |-> count,
         total_messages |-> total,
         avg_messages_per_session |-> IF count # 0 THEN <<total, count>> ELSE <<0, 1>>]

\* SessionManager.get_session_stats; the mean total / count is kept as the
\* fraction <<total, count>>, and is 0 (<<0, 1>>) without sessions
get_session_stats(map) ==
    LET total == SumLen(map, DOMAIN map)
        count == Cardinality(DOMAIN map)
    IN  [active_sessions |-> count,
         total_messages |-> total,
         avg_messages_per_session |-> IF count # 0 THEN <<total, count>> ELSE <<0, 1>>]

\* a Session is returned by reference: the value is the key it is stored under
Ref(sid) == Some(sid)

\* get_session changed to forget the remove_session call
get_session_keep_expired(map, sid, t) ==
    LET session == IF sid \in DOMAIN map THEN Ref(sid) ELSE None
    IN  IF session # None /\ is_expired(map[sid], t)
        THEN [sessions |-> map, val |-> None, log |-> {}]
        ELSE [sessions |-> map, val |-> session, log |-> {}]

\* get_session changed to refresh last_activity of the session it returns
get_session_touch(map, sid, t) ==
    LET session == IF sid \in DOMAIN map THEN Ref(sid) ELSE None
    IN  IF session # None /\ is_expired(map[sid], t)
        THEN [sessions |-> remove_session(map, sid), val |-> None,
              log |-> RemovedLog(map, {sid})]
        ELSE [sessions |-> IF session # None
                           THEN [map EXCEPT ![sid].last_activity = t] ELSE map,
              val |-> session, log |-> {}]

\* SessionManager.get_session at clock reading t: the map afterwards and the
\* value returned
get_session(map, sid, t) ==
    LET session == IF sid \in DOMAIN map THEN Ref(sid) ELSE None
    IN  IF session # None /\ is_expired(map[sid], t)
        THEN [sessions |-> remove_session(map, sid), val |-> None,
              log |-> RemovedLog(map, {sid})]
        ELSE [sessions |-> map, val |-> session, log |-> {}]

\* SessionManager.create_session at clock reading t
create_session(map, sid, t) ==
    [sessions |-> Put(map, sid, NewSession(sid, t)), val |-> Ref(sid),
     log |-> CreatedLog(sid)]

\* SessionManager.get_or_create_session at clock reading t
get_or_create_session(map, sid, t) ==
    LET got == get_session(map, sid, t)
    IN  IF got.val = None
        THEN [create_session(got.sessions, sid, t) EXCEPT !.log = got.log \cup @]
        ELSE got

\* cleanup_expired_sessions changed to remove a session idle for exactly the
\* timeout as well
cleanup_idle_sessions(map, t) ==
    LET expired_sessions == {sid \in DOMAIN map :
                                t - map[sid].last_activity >= SESSION_TIMEOUT}
    IN  [s \in DOMAIN map \ expired_sessions |-> map[s]]

\* SessionManager.cleanup_expired_sessions at clock reading t
cleanup_expired_sessions(map, t) ==
    LET expired_sessions == {sid \in DOMAIN map : is_expired(map[sid], t)}
    IN  [s \in DOMAIN map \ expired_sessions |-> map[s]]

EmptyMap == [s \in {} |-> None]

\* a call of the session store: its name, the session id given, the value
\* returned and the lines logged
Ret(op, sid, val, log) == [op |-> op, sid |-> sid, val |-> val, log |-> log]

\* a call of the vector store: its name, a note on it and the value returned
VRet(op, note, val) == [op |-> op, note |-> note, val |-> val]

\* the history of the Session objects of map2, given the history of map1: a
\* Session object that stays in the store keeps its history, a new one has none
History(map1, hist, map2) ==
    [s \in DOMAIN map2 |->
        IF s \in DOMAIN map1 /\ map2[s] = map1[s] THEN hist[s] ELSE <<>>]

----------------------------------------------------------------------------
(***************************************************************************)
(* The chunker and embedder (rag/embedded.py).  A text is the sequence of  *)
(* its words (text.split()); a chunk's text is the sequence of the words   *)
(* it joins with single spaces.                                            *)
(***************************************************************************)
MaxDocs == 2       \* add_documents is explored while the store holds at most this

Vocabulary == <<"reset", "billing">>

\* DocumentEmbedder.chunk_text on the words of a text; fuel bounds the loop
RECURSIVE ChunkFrom(_, _, _)
ChunkFrom(words, start, fuel) ==
    IF start >= Len(words) \/ fuel = 0 THEN <<>>
    ELSE LET end == start + CHUNK_SIZE
             chunk_words == SubSeq(words, start + 1, Min(end, Len(words)))
             chunks == IF chunk_words # <<>> THEN <<chunk_words>> ELSE <<>>
         IN  IF end >= Len(words) THEN chunks
             ELSE chunks \o ChunkFrom(words, end - CHUNK_OVERLAP, fuel - 1)

chunk_text(words) ==
    IF words = <<>> THEN <<>> ELSE ChunkFrom(words, 0, Len(words) + 1)

\* the chunk records load_documents_from_directory builds for one file
FileDocuments(file) ==
    LET chunks == chunk_text(file.content)
    IN  [i \in 1..Len(chunks) |->
            [text |-> chunks[i], source |-> file.path,
             chunk_id |-> i - 1, total_chunks |-> Len(chunks)]]

\* DocumentEmbedder.load_documents_from_directory: dir is the sequence of the
\* *.md files rglob yields (empty when the directory does not exist)
RECURSIVE load_documents_from_directory(_)
load_documents_from_directory(dir) ==
    IF dir = <<>> THEN <<>>
    ELSE (IF dir[1].content # <<>> THEN FileDocuments(dir[1]) ELSE <<>>)
         \o load_documents_from_directory(Tail(dir))

RECURSIVE Count(_, _)
Count(words, w) ==
    IF words = <<>> THEN 0
    ELSE (IF words[1] = w THEN 1 ELSE 0) + Count(Tail(words), w)

\* SentenceTransformer.encode on one text: the model stands for the encoder
\* with the count of each vocabulary word, a vector of fixed dimension
Encode(words) == [i \in 1..Len(Vocabulary) |-> Count(words, Vocabulary[i])]

\* DocumentEmbedder.embed_texts: one vector per text, or the empty array when
\* there is no text or the encoder raised (ok = FALSE)
embed_texts(texts, ok) ==
    IF texts = <<>> THEN <<>>
    ELSE IF ok THEN [i \in 1..Len(texts) |-> Encode(texts[i])]
    ELSE <<>>

(***************************************************************************)
(* The vector store (rag/vector_store.py).  A store is the record of the   *)
(* fields of VectorStore; a faiss IndexFlatL2 is its dimension d and its   *)
(* vectors xb in insertion order.                                          *)
(***************************************************************************)
Store(idx, docs, dim) == [index |-> idx, documents |-> docs, dimension |-> dim]

\* VectorStore.__init__
NewStore == Store(None, <<>>, None)

\* faiss.IndexFlatL2.add
IndexAdd(idx, embeddings) == [idx EXCEPT !.xb = @ \o embeddings]

\* number of vectors of a store's index (0 without an index)
NTotal(idx) == IF idx = None THEN 0 ELSE Len(idx[1].xb)

\* VectorStore.create_index
create_index(st, embeddings) ==
    IF Len(embeddings) = 0 THEN st
    ELSE LET d == Len(embeddings[1])
         IN  [st EXCEPT !.dimension = Some(d),
                        !.index = Some(IndexAdd([d |-> d, xb |-> <<>>], embeddings))]

\* VectorStore.add_documents; ok tells whether the encoder answered
add_documents(st, docs, ok) ==
    IF docs = <<>> THEN st
    ELSE LET extended == [st EXCEPT !.documents = @ \o docs]
             texts == [i \in 1..Len(docs) |-> docs[i].text]
             embeddings == embed_texts(texts, ok)
         IN  IF Len(embeddings) = 0 THEN extended
             ELSE IF extended.index = None THEN create_index(extended, embeddings)
             ELSE [extended EXCEPT !.index = Some(IndexAdd(@[1], embeddings))]

\* squared Euclidean distance, the metric of IndexFlatL2
RECURSIVE L2Sqr(_, _)
L2Sqr(x, y) ==
    IF x = <<>> THEN 0
    ELSE (x[1] - y[1]) * (x[1] - y[1]) + L2Sqr(Tail(x), Tail(y))

\* the distance faiss reports for a result slot it could not fill: the largest
\* float32, above every distance between two vectors of the model
FLT_MAX == 2 ^ 20

\* the positions of xb not in done, nearest to q first (ties: lower position)
RECURSIVE NearestFirst(_, _, _, _)
NearestFirst(xb, q, done, n) ==
    LET cands == (1..Len(xb)) \ done
    IN  IF n = 0 \/ cands = {} THEN <<>>
        ELSE LET best == CHOOSE i \in cands : \A j \in cands :
                            \/ L2Sqr(xb[i], q) < L2Sqr(xb[j], q)
                            \/ L2Sqr(xb[i], q) = L2Sqr(xb[j], q) /\ i <= j
             IN  <<best>> \o NearestFirst(xb, q, done \cup {best}, n - 1)

\* faiss.IndexFlatL2.search for one query: k (distance, label) pairs, labels
\* 0-based, nearest first; the slots beyond the vectors held are (FLT_MAX, -1)
IndexSearch(idx, q, k) ==
    LET order == NearestFirst(idx.xb, q, {}, k)
    IN  [i \in 1..k |->
            IF i <= Len(order)
            THEN [dist |-> L2Sqr(idx.xb[order[i]], q), idx |-> order[i] - 1]
            ELSE [dist |-> FLT_MAX, idx |-> -1]]

\* Python's seq[i] for -Len(seq) <= i < Len(seq)
PyItem(seq, i) == IF i < 0 THEN seq[Len(seq) + i + 1] ELSE seq[i + 1]

RECURSIVE SearchResults(_, _)
SearchResults(hits, docs) ==
    IF hits = <<>> THEN <<>>
    ELSE (IF hits[1].idx < Len(docs)
          THEN <<[doc |-> PyItem(docs, hits[1].idx),
                  similarity_score |-> <<1, 1 + hits[1].dist>>]>>
          ELSE <<>>)
         \o SearchResults(Tail(hits), docs)

\* VectorStore.search; a result is the chunk and its similarity score
\* 1 / (1 + distance), kept as the fraction <<1, 1 + distance>>
search(st, query, k, ok) ==
    IF st.index = None \/ Len(st.documents) = 0 THEN <<>>
    ELSE LET query_embedding == embed_texts(<<query>>, ok)
         IN  IF Len(query_embedding) = 0 THEN <<>>
             ELSE SearchResults(
                      IndexSearch(st.index[1], query_embedding[1],
                                  Min(k, Len(st.documents))),
                      st.documents)

RECURSIVE Flatten(_)
Flatten(xb) == IF xb = <<>> THEN <<>> ELSE xb[1] \o Flatten(Tail(xb))

\* faiss.write_index: the file holds d, ntotal and the vectors' components
write_index(idx) ==
    [d |-> idx.d, ntotal |-> Len(idx.xb), codes |-> Flatten(idx.xb)]

\* faiss.read_index on a readable file
read_index(file) ==
    [d |-> file.d,
     xb |-> [i \in 1..file.ntotal |->
                SubSeq(file.codes, (i - 1) * file.d + 1, i * file.d)]]

\* pickle.dump / pickle.load of the metadata
MetadataFile(st) ==
    [documents |-> st.documents, dimension |-> st.dimension]

NoFiles == [index |-> None, metadata |-> None]

\* how the I/O of save() ends: both artifacts written; write_index raised and
\* wrote nothing; the index was written and open() of the metadata raised.
\* (Writes that raise after writing a part of a file are left out.)
SaveOutcomes == {"ok", "index_unwritten", "metadata_unwritten"}

\* VectorStore.save: the disk afterwards
save(st, dk, outcome) ==
    IF st.index = None THEN dk
    ELSE CASE outcome = "index_unwritten" -> dk
           [] outcome = "metadata_unwritten" ->
                [dk EXCEPT !.index = Some(write_index(st.index[1]))]
           [] OTHER ->
                [index |-> Some(write_index(st.index[1])),
                 metadata |-> Some(MetadataFile(st))]

\* a load that reads the index file and leaves the metadata file unread
load_index_only(st, dk) ==
    IF dk.index = None THEN [store |-> st, val |-> FALSE]
    ELSE [store |-> [st EXCEPT !.index = Some(read_index(dk.index[1]))],
          val |-> TRUE]

\* VectorStore.load: the store afterwards and the value returned
load(st, dk) ==
    IF dk.index = None THEN [store |-> st, val |-> FALSE]
    ELSE LET read == [st EXCEPT !.index = Some(read_index(dk.index[1]))]
         IN  IF dk.metadata = None THEN [store |-> read, val |-> TRUE]
             ELSE [store |-> [read EXCEPT !.documents = dk.metadata[1].documents,
                                          !.dimension = dk.metadata[1].dimension],
                   val |-> TRUE]

\* a rebuild that adds the directory's chunks to what the store holds
rebuild_from_directory_keep(st, dk, dir, ok, outcome) ==
    LET docs == load_documents_from_directory(dir)
    IN  IF docs = <<>> THEN [store |-> st, disk |-> dk]
        ELSE LET added == add_documents(st, docs, ok)
             IN  [store |-> added, disk |-> save(added, dk, outcome)]

\* VectorStore.rebuild_from_directory: the store and the disk afterwards
rebuild_from_directory(st, dk, dir, ok, outcome) ==
    LET cleared == [st EXCEPT !.index = None, !.documents = <<>>]
        docs == load_documents_from_directory(dir)
    IN  IF docs = <<>> THEN [store |-> cleared, disk |-> dk]
        ELSE LET added == add_documents(cleared, docs, ok)
             IN  [store |-> added, disk |-> save(added, dk, outcome)]

\* initialize_app (app.py:45-48): load, and rebuild when load reports failure
initialize_app(st, dk, dir, ok, outcome) ==
    LET loaded == load(st, dk)
    IN  IF ~loaded.val
        THEN rebuild_from_directory(loaded.store, dk, dir, ok, outcome)
        ELSE [store |-> loaded.store, disk |-> dk]

\* VectorStore.get_stats (store_path left out)
get_stats(st) ==
    [total_documents |-> Len(st.documents), dimension |-> st.dimension,
     index_exists |-> st.index # None]

----------------------------------------------------------------------------
(***************************************************************************)
(* The session store: one action per method of Session / SessionManager.   *)
(***************************************************************************)
\* time passes
Tick ==
    /\ now < MaxTime
    /\ now' = now + 1
    /\ UNCHANGED <<cfgvars, tvars, avars, vvars, sessions, appended, budget, ret>>

GetSession(sid) ==
    LET r == get_session(sessions, sid, now)
    IN  /\ sessions' = r.sessions
        /\ appended' = History(sessions, appended, r.sessions)
        /\ ret' = Ret("get_session", sid, r.val, r.log)
        /\ UNCHANGED <<cfgvars, tvars, avars, vvars, now, budget>>

CreateSession(sid) ==
    LET r == create_session(sessions, sid, now)
    IN  /\ sessions' = r.sessions
        /\ appended' = [History(sessions, appended, r.sessions) EXCEPT ![sid] = <<>>]
        /\ ret' = Ret("create_session", sid, r.val, r.log)
        /\ UNCHANGED <<cfgvars, tvars, avars, vvars, now, budget>>

GetOrCreateSession(sid) ==
    LET r == get_or_create_session(sessions, sid, now)
    IN  /\ sessions' = r.sessions
        /\ appended' = History(sessions, appended, r.sessions)
        /\ ret' = Ret("get_or_create_session", sid, r.val, r.log)
        /\ UNCHANGED <<cfgvars, tvars, avars, vvars, now, budget>>

RemoveSession(sid) ==
    /\ sessions' = remove_session(sessions, sid)
    /\ appended' = History(sessions, appended, sessions')
    /\ ret' = Ret("remove_session", sid, None, RemovedLog(sessions, {sid}))
    /\ UNCHANGED <<cfgvars, tvars, avars, vvars, now, budget>>

CleanupExpiredSessions ==
    /\ sessions' = cleanup_expired_sessions(sessions, now)
    /\ appended' = History(sessions, appended, sessions')
    /\ ret' = Ret("cleanup_expired_sessions", "-", None,
                  RemovedLog(sessions, DOMAIN sessions \ DOMAIN sessions'))
    /\ UNCHANGED <<cfgvars, tvars, avars, vvars, now, budget>>

\* Session.add_message on the Session stored under sid; the clock may advance
\* between its two readings of time.time()
AddMessage(sid, role, content) ==
    /\ sid \in DOMAIN sessions
    /\ budget > 0
    /\ \E t2 \in now..Min(now + 1, MaxTime) :
          /\ sessions' = [sessions EXCEPT
                            ![sid] = add_message(sessions[sid], role, content, now, t2)]
          /\ now' = t2
    /\ appended' = [appended EXCEPT ![sid] = Append(@, Message(role, content, now))]
    /\ budget' = budget - 1
    /\ ret' = Ret("add_message", sid, None, {})
    /\ UNCHANGED <<cfgvars, tvars, avars, vvars>>

GetRecentMessages(sid, limit) ==
    /\ sid \in DOMAIN sessions
    /\ ret' = Ret("get_recent_messages", sid, get_recent_messages(sessions[sid], limit), {})
    /\ UNCHANGED <<cfgvars, tvars, avars, vvars, now, sessions, appended, budget>>

GetSessionCount ==
    /\ ret' = Ret("get_session_count", "-", Cardinality(DOMAIN sessions), {})
    /\ UNCHANGED <<cfgvars, tvars, avars, vvars, now, sessions, appended, budget>>

GetSessionStats ==
    /\ ret' = Ret("get_session_stats", "-", get_session_stats(sessions), {})
    /\ UNCHANGED <<cfgvars, tvars, avars, vvars, now, sessions, appended, budget>>

SessionNext ==
    \/ Tick
    \/ \E sid \in SessionIds : GetSession(sid)
    \/ \E sid \in SessionIds : CreateSession(sid)
    \/ \E sid \in SessionIds : GetOrCreateSession(sid)
    \/ \E sid \in SessionIds : RemoveSession(sid)
    \/ CleanupExpiredSessions
    \/ \E sid \in SessionIds, role \in Roles, content \in Contents :
          AddMessage(sid, role, content)
    \/ \E sid \in SessionIds, limit \in Limits : GetRecentMessages(sid, limit)
    \/ GetSessionCount
    \/ GetSessionStats

----------------------------------------------------------------------------
(***************************************************************************)
(* The vector store: one action per method of VectorStore, the process     *)
(* start, and the edits of the knowledge base directory.                   *)
(***************************************************************************)
FileA == [path |-> "a.md", content |-> <<"reset", "password", "menu">>]
FileB == [path |-> "b.md", content |-> <<"billing">>]
FileE == [path |-> "e.md", content |-> <<>>]     \* only whitespace
Dirs == {<<FileE>>, <<FileB>>, <<FileA, FileB>>}
DocInputs == {load_documents_from_directory(d) : d \in Dirs}
Queries == {<<"reset">>, <<"billing", "cycle">>}
Ks == {1, 3}     \* a single result and MAX_RETRIEVED_DOCS' default

TheStore == Store(index, documents, dimension)

SetStore(st) ==
    /\ index' = st.index
    /\ documents' = st.documents
    /\ dimension' = st.dimension

\* the store whose save() wrote both artifacts now on disk, if any: called
\* tells whether the step ran save(), st is the store it ran on and dk2 the
\* disk afterwards
Saved(called, st, dk2, outcome) ==
    IF called /\ st.index # None /\ outcome = "ok" THEN Some(st)
    ELSE IF dk2 = disk THEN saved
    ELSE None

\* a new process: the module-level VectorStore() (vector_store.py:163)
Restart ==
    /\ SetStore(NewStore)
    /\ vret' = VRet("__init__", "-", None)
    /\ UNCHANGED <<cfgvars, tvars, avars, svars, disk, directory, saved>>

InitializeApp(ok, outcome) ==
    LET r == initialize_app(TheStore, disk, directory, ok, outcome)
    IN  /\ SetStore(r.store)
        /\ disk' = r.disk
        /\ saved' = Saved(/\ ~load(TheStore, disk).val
                           /\ load_documents_from_directory(directory) # <<>>,
                           r.store, r.disk, outcome)
        /\ vret' = VRet("initialize_app", "-", load(TheStore, disk).val)
        /\ UNCHANGED <<cfgvars, tvars, avars, svars, directory>>

AddDocuments(docs, ok) ==
    /\ Max(Len(documents), NTotal(index)) + Len(docs) <= MaxDocs
    /\ SetStore(add_documents(TheStore, docs, ok))
    /\ vret' = VRet("add_documents", "-", None)
    /\ UNCHANGED <<cfgvars, tvars, avars, svars, disk, directory, saved>>

Search(query, k, ok) ==
    /\ vret' = VRet("search", "-", search(TheStore, query, k, ok))
    /\ UNCHANGED <<cfgvars, tvars, avars, svars, index, documents, dimension, disk, directory, saved>>

Save(outcome) ==
    /\ disk' = save(TheStore, disk, outcome)
    /\ saved' = Saved(TRUE, TheStore, disk', outcome)
    /\ vret' = VRet("save", "-", None)
    /\ UNCHANGED <<cfgvars, tvars, avars, svars, index, documents, dimension, directory>>

Load ==
    LET r == load(TheStore, disk)
    IN  /\ SetStore(r.store)
        /\ vret' = VRet("load", "-", r.val)
        /\ UNCHANGED <<cfgvars, tvars, avars, svars, disk, directory, saved>>

RebuildFromDirectory(ok, outcome) ==
    LET r == rebuild_from_directory(TheStore, disk, directory, ok, outcome)
    IN  /\ SetStore(r.store)
        /\ disk' = r.disk
        /\ saved' = Saved(load_documents_from_directory(directory) # <<>>,
                           r.store, r.disk, outcome)
        /\ vret' = VRet("rebuild_from_directory",
                       IF vret.op = "rebuild_from_directory" /\ vret.val = ok
                       THEN "again" ELSE "first",
                       ok)
        /\ UNCHANGED <<cfgvars, tvars, avars, svars, directory>>

GetStats ==
    /\ vret' = VRet("get_stats", "-", get_stats(TheStore))
    /\ UNCHANGED <<cfgvars, tvars, avars, svars, index, documents, dimension, disk, directory, saved>>

\* the knowledge base directory is edited
EditDirectory(dir) ==
    /\ dir # directory
    /\ directory' = dir
    /\ vret' = VRet("edit_directory", "-", None)
    /\ UNCHANGED <<cfgvars, tvars, avars, svars, index, documents, dimension, disk, saved>>

StoreNext ==
    \/ Restart
    \/ \E ok \in BOOLEAN, outcome \in SaveOutcomes : InitializeApp(ok, outcome)
    \/ \E docs \in DocInputs, ok \in BOOLEAN : AddDocuments(docs, ok)
    \/ \E query \in Queries, k \in Ks, ok \in BOOLEAN : Search(query, k, ok)
    \/ \E outcome \in SaveOutcomes : Save(outcome)
    \/ Load
    \/ \E ok \in BOOLEAN, outcome \in SaveOutcomes : RebuildFromDirectory(ok, outcome)
    \/ GetStats
    \/ \E dir \in Dirs : EditDirectory(dir)

----------------------------------------------------------------------------
(***************************************************************************)
(* Initial states and specifications.  The two components share no state,  *)
(* so each is checked by a specification of its own; the other component   *)
(* rests in its initial state.                                             *)
(***************************************************************************)
SessionStart ==
    /\ now = 0
    /\ sessions = EmptyMap
    /\ appended = EmptyMap
    /\ ret = Ret("init", "-", None, {})

StoreStart ==
    /\ index = None
    /\ documents = <<>>
    /\ dimension = None
    /\ disk = NoFiles
    /\ saved = None
    /\ vret = VRet("init", "-", None)

\* no request is being served
ThreadsStart ==
    /\ pc = <<>>
    /\ local = <<>>

\* TicketManager.__init__ without a tickets file; no turn made yet
AppStart ==
    /\ tickets = <<>>
    /\ turn = None

\* the configuration config.py reads from the environment
SessionInit ==
    /\ MAX_SESSION_MESSAGES = 2
    /\ SESSION_TIMEOUT = 1
    /\ CHUNK_SIZE = 2
    /\ CHUNK_OVERLAP = 1
    /\ SessionStart
    /\ budget = MaxCalls
    /\ ThreadsStart
    /\ AppStart
    /\ StoreStart
    /\ directory = <<>>

\* one conversation: the calls generate_response makes on the session of one
\* id (app.py:224-227, 290), for every cap
ChatInit ==
    /\ MAX_SESSION_MESSAGES \in 1..MaxCap
    /\ SESSION_TIMEOUT = 1
    /\ CHUNK_SIZE = 2
    /\ CHUNK_OVERLAP = 1
    /\ SessionStart
    /\ budget = MaxAppends
    /\ ThreadsStart
    /\ AppStart
    /\ StoreStart
    /\ directory = <<>>

ChatNext ==
    \/ Tick
    \/ GetOrCreateSession("s1")
    \/ \E role \in Roles, content \in ChatContents : AddMessage("s1", role, content)

StoreInit ==
    /\ MAX_SESSION_MESSAGES = 2
    /\ SESSION_TIMEOUT = 1
    /\ CHUNK_SIZE = 2
    /\ CHUNK_OVERLAP = 1
    /\ SessionStart
    /\ budget = 0
    /\ ThreadsStart
    /\ AppStart
    /\ StoreStart
    /\ directory \in Dirs

SessionSpec == SessionInit /\ [][SessionNext]_vars

ChatSpec == ChatInit /\ [][ChatNext]_vars

StoreSpec == StoreInit /\ [][StoreNext]_vars

----------------------------------------------------------------------------
(***************************************************************************)
(* Properties of the session memory.                                       *)
(***************************************************************************)
\* the step is the call op of the session store, made by action A
Call(op, A) == ret'.op = op /\ A

\* the stored sessions with now - last_activity > SESSION_TIMEOUT
ExpiredIds == {sid \in DOMAIN sessions :
                  now - sessions[sid].last_activity > SESSION_TIMEOUT}

\* C1: for every cap M >= 1, after any sequence of add_message calls a
\* session never holds more than M messages.
C1_CountWithinCap ==
    \A sid \in DOMAIN sessions :
        Len(sessions[sid].messages) <= MAX_SESSION_MESSAGES

\* C2: after N > M messages were appended one at a time, the history has
\* exactly M messages, the first is the first message ever appended and the
\* last M-1 are the last M-1 appended, in their order.
C2_TrimKeepsFirstAndLast ==
    \A sid \in DOMAIN sessions :
        LET M == MAX_SESSION_MESSAGES
            N == Len(appended[sid])
            messages == sessions[sid].messages
        IN  N > M =>
              /\ Len(messages) = M
              /\ messages[1] = appended[sid][1]
              /\ SubSeq(messages, 2, M) = SubSeq(appended[sid], N - M + 2, N)

\* C3: get_session on a stored session with now - last_activity >
\* SESSION_TIMEOUT deletes it and returns None; get_or_create_session then
\* returns a new session under the same id with an empty history, and the
\* store holds none of the earlier messages of that id.
C3_ExpiredSessionIsDropped ==
    [][\A sid \in ExpiredIds :
          /\ Call("get_session", GetSession(sid)) =>
                /\ sid \notin DOMAIN sessions'
                /\ ret'.val = None
          /\ Call("get_or_create_session", GetOrCreateSession(sid)) =>
                /\ sid \in DOMAIN sessions'
                /\ ret'.val = Ref(sid)
                /\ sessions'[sid].session_id = sid
                /\ sessions'[sid].messages = <<>>
                /\ sessions'[sid].created_at = now
                /\ appended'[sid] = <<>>]_vars

\* C3's case: get_or_create_session found the session of its id expired,
\* removed it and created a new one, which is empty
C3_Witness ==
    /\ ret.op = "get_or_create_session"
    /\ ret.log = {<<"Removed session", ret.sid>>, <<"Created new session", ret.sid>>}
    /\ sessions[ret.sid].messages = <<>>
    /\ budget < MaxCalls

\* what get_session_stats would count if it left out the expired sessions
LiveStats ==
    [active_sessions |-> Cardinality(DOMAIN sessions \ ExpiredIds),
     total_messages |-> SumLen(sessions, DOMAIN sessions \ ExpiredIds)]

C5_ReadsChangeNothing ==
    [][/\ \A sid \in DOMAIN sessions \ ExpiredIds :
            \/ Call("get_session", GetSession(sid))
            \/ Call("get_or_create_session", GetOrCreateSession(sid))
            => sessions' = sessions
       /\ (\E sid \in SessionIds, limit \in Limits :
              Call("get_recent_messages", GetRecentMessages(sid, limit)))
            => sessions' = sessions
       /\ \/ Call("get_session_count", GetSessionCount)
          \/ Call("get_session_stats", GetSessionStats)
          => sessions' = sessions
       /\ \A sid \in DOMAIN sessions \cap DOMAIN sessions' :
            sessions'[sid] # sessions[sid] =>
              \/ \E role \in Roles, content \in Contents :
                    Call("add_message", AddMessage(sid, role, content))
              \/ sessions'[sid] = NewSession(sid, now)]_vars

\* C5's case: the statistics were read while an expired session with
\* messages was in the store, and it is still there
C5_Witness ==
    /\ ret.op = "get_session_stats"
    /\ \E sid \in ExpiredIds : sessions[sid].messages # <<>>
    /\ ret.val.total_messages = SumLen(sessions, DOMAIN sessions)

----------------------------------------------------------------------------
(***************************************************************************)
(* Properties of the vector store.                                         *)
(***************************************************************************)
\* the step is the call op of the vector store, made by action A
VCall(op, A) == vret'.op = op /\ A

\* C6: in every reachable state of the store, also after calls in which the
\* encoder failed, the index holds as many vectors as the store holds chunks.
C6_VectorCountEqualsChunkCount == NTotal(index) = Len(documents)

\* C7: load() does not return True when the vector artifact is on disk and
\* the metadata artifact is missing.
C7_LoadFailsWithoutMetadata ==
    [][(disk.index # None /\ disk.metadata = None /\ VCall("load", Load))
          => vret'.val = FALSE]_vars

\* the store after the step
TheStoreNext == Store(index', documents', dimension')

\* C8: a complete save() of a store that holds chunks, followed by load()
\* into a new VectorStore, gives back the same chunks at the same positions,
\* the same vectors and dimension, and so the same search results for every
\* query.
C8_SaveLoadRoundTrip ==
    [][(/\ saved # None
        /\ TheStore = NewStore
        /\ VCall("load", Load))
          => /\ saved[1].documents # <<>>
                  => /\ vret'.val = TRUE
                     /\ documents' = saved[1].documents
                     /\ index' = saved[1].index
                     /\ dimension' = saved[1].dimension
             /\ \A query \in Queries, k \in Ks, ok \in BOOLEAN :
                    search(TheStoreNext, query, k, ok) = search(saved[1], query, k, ok)]_vars

\* C8's case: load() has restored a store with chunks and their vectors
\* from the artifacts of a complete save
C8_Witness ==
    /\ vret.op = "load"
    /\ vret.val = TRUE
    /\ saved = Some(TheStore)
    /\ Len(documents) >= 2
    /\ NTotal(index) = Len(documents)
    /\ \E query \in Queries : Len(search(TheStore, query, 3, TRUE)) >= 2

\* a rebuild_from_directory step that follows another one, the directory
\* unchanged in between
SecondRebuild ==
    /\ vret.op = "rebuild_from_directory"
    /\ \E ok \in BOOLEAN, outcome \in SaveOutcomes :
          VCall("rebuild_from_directory", RebuildFromDirectory(ok, outcome))

SameChunksAndVectors ==
    /\ Range(documents') = Range(documents)
    /\ Len(documents') = Len(documents)
    /\ NTotal(index') = NTotal(index)

C10_RebuildPersistsResult ==
    [][VCall("rebuild_from_directory", RebuildFromDirectory(TRUE, "ok"))
          => load(NewStore, disk').store.documents = documents']_vars

----------------------------------------------------------------------------
(***************************************************************************)
(* Requests served concurrently.  app.run (app.py:391) serves every        *)
(* request on a thread of its own and no method of VectorStore or Session  *)
(* takes a lock, so the statements of two calls interleave.  A thread is   *)
(* at "idle" between calls and at "done" when its call has returned.       *)
(***************************************************************************)
Goto(th, label) == pc' = [pc EXCEPT ![th] = label]

\* what a call returned: the exception it raised ("-" for none) and its value
Returned(raised, val) == [raised |-> raised, val |-> val]

\* ---- POST /api/rebuild-knowledge: vector_store.rebuild_from_directory() ----
RebuildLocals(pre) == [pre |-> pre, docs |-> <<>>, embeddings |-> <<>>]

RebuildCall ==
    /\ pc["rebuild"] = "idle"
    /\ pc' = [pc EXCEPT !["rebuild"] = "clear_index"]
    /\ local' = [local EXCEPT
                   !["rebuild"] = RebuildLocals(TheStore),
                   !["search"].overlapped = @ \/ pc["search"] \notin {"idle", "done"}]
    /\ UNCHANGED <<cfgvars, svars, vvars, avars>>

\* self.index = None
RebuildClearIndex ==
    /\ pc["rebuild"] = "clear_index"
    /\ index' = None
    /\ Goto("rebuild", "clear_documents")
    /\ UNCHANGED <<cfgvars, svars, avars, local, documents, dimension, disk,
                   directory, saved, vret>>

\* self.documents = []
RebuildClearDocuments ==
    /\ pc["rebuild"] = "clear_documents"
    /\ documents' = <<>>
    /\ Goto("rebuild", "load_documents")
    /\ UNCHANGED <<cfgvars, svars, avars, local, index, dimension, disk,
                   directory, saved, vret>>

\* documents = load_documents_from_directory(directory); return if none
RebuildLoadDocuments ==
    /\ pc["rebuild"] = "load_documents"
    /\ LET docs == load_documents_from_directory(directory)
       IN  /\ local' = [local EXCEPT !["rebuild"].docs = docs]
           /\ Goto("rebuild", IF docs = <<>> THEN "idle" ELSE "extend")
    /\ UNCHANGED <<cfgvars, svars, vvars, avars>>

\* add_documents: self.documents.extend(documents)
AddDocumentsExtend ==
    /\ pc["rebuild"] = "extend"
    /\ documents' = documents \o local["rebuild"].docs
    /\ Goto("rebuild", "embed")
    /\ UNCHANGED <<cfgvars, svars, avars, local, index, dimension, disk,
                   directory, saved, vret>>

\* add_documents: embeddings = embed_texts(texts), the encoder answering
AddDocumentsEmbed ==
    /\ pc["rebuild"] = "embed"
    /\ LET docs == local["rebuild"].docs
           texts == [i \in 1..Len(docs) |-> docs[i].text]
       IN  local' = [local EXCEPT !["rebuild"].embeddings = embed_texts(texts, TRUE)]
    /\ Goto("rebuild", IF index = None THEN "create_index" ELSE "index_add")
    /\ UNCHANGED <<cfgvars, svars, vvars, avars>>

\* create_index: self.dimension = ...; self.index = faiss.IndexFlatL2(...)
CreateIndexNew ==
    /\ pc["rebuild"] = "create_index"
    /\ LET d == Len(local["rebuild"].embeddings[1])
       IN  /\ dimension' = Some(d)
           /\ index' = Some([d |-> d, xb |-> <<>>])
    /\ Goto("rebuild", "index_add")
    /\ UNCHANGED <<cfgvars, svars, avars, local, documents, disk, directory,
                   saved, vret>>

\* self.index.add(embeddings)
IndexAddEmbeddings ==
    /\ pc["rebuild"] = "index_add"
    /\ index' = Some(IndexAdd(index[1], local["rebuild"].embeddings))
    /\ Goto("rebuild", "save")
    /\ UNCHANGED <<cfgvars, svars, avars, local, documents, dimension, disk,
                   directory, saved, vret>>

\* self.save(), the writes succeeding, and return
RebuildSave ==
    /\ pc["rebuild"] = "save"
    /\ disk' = save(TheStore, disk, "ok")
    /\ saved' = Saved(TRUE, TheStore, disk', "ok")
    /\ Goto("rebuild", "idle")
    /\ UNCHANGED <<cfgvars, svars, avars, local, index, documents, dimension,
                   directory, vret>>

\* ---- a request that calls vector_store.search(query, k) ----
SearchLocals(query, k, pre, overlapped) ==
    [query |-> query, k |-> k, pre |-> pre, overlapped |-> overlapped,
     hits |-> <<>>, ret |-> Returned("-", <<>>)]

SearchCall(query, k) ==
    /\ pc["search"] = "idle"
    /\ Goto("search", "check")
    /\ local' = [local EXCEPT !["search"] =
                    SearchLocals(query, k,
                                 IF pc["rebuild"] = "idle" THEN TheStore
                                 ELSE local["rebuild"].pre,
                                 pc["rebuild"] # "idle")]
    /\ UNCHANGED <<cfgvars, svars, vvars, avars>>

\* if self.index is None or len(self.documents) == 0: return []
SearchCheck ==
    /\ pc["search"] = "check"
    /\ IF index = None \/ Len(documents) = 0
       THEN /\ local' = [local EXCEPT !["search"].ret = Returned("-", <<>>)]
            /\ Goto("search", "done")
       ELSE /\ Goto("search", "index_search")
            /\ UNCHANGED local
    /\ UNCHANGED <<cfgvars, svars, vvars, avars>>

\* self.index.search(query_embedding, min(k, len(self.documents))); with
\* self.index None by now the attribute access raises
SearchIndex ==
    /\ pc["search"] = "index_search"
    /\ IF index = None
       THEN /\ local' = [local EXCEPT !["search"].ret = Returned("AttributeError", <<>>)]
            /\ Goto("search", "done")
       ELSE /\ local' = [local EXCEPT !["search"].hits =
                            IndexSearch(index[1], Encode(local["search"].query),
                                        Min(local["search"].k, Len(documents)))]
            /\ Goto("search", "collect")
    /\ UNCHANGED <<cfgvars, svars, vvars, avars>>

\* the result loop over self.documents; self.documents[-1] of an empty list
\* raises
SearchCollect ==
    /\ pc["search"] = "collect"
    /\ LET hits == local["search"].hits
       IN  local' = [local EXCEPT !["search"].ret =
                        IF documents = <<>> /\ \E i \in DOMAIN hits : hits[i].idx < 0
                        THEN Returned("IndexError", <<>>)
                        ELSE Returned("-", SearchResults(hits, documents))]
    /\ Goto("search", "done")
    /\ UNCHANGED <<cfgvars, svars, vvars, avars>>

SearchReturn ==
    /\ pc["search"] = "done"
    /\ Goto("search", "idle")
    /\ UNCHANGED <<cfgvars, svars, vvars, avars, local>>

RaceNext ==
    \/ RebuildCall
    \/ RebuildClearIndex
    \/ RebuildClearDocuments
    \/ RebuildLoadDocuments
    \/ AddDocumentsExtend
    \/ AddDocumentsEmbed
    \/ CreateIndexNew
    \/ IndexAddEmbeddings
    \/ RebuildSave
    \/ \E query \in Queries, k \in Ks : SearchCall(query, k)
    \/ SearchCheck
    \/ SearchIndex
    \/ SearchCollect
    \/ SearchReturn

\* the store was built and saved from a directory with documents, which may
\* have been edited since
RaceInit ==
    /\ MAX_SESSION_MESSAGES = 2
    /\ SESSION_TIMEOUT = 1
    /\ CHUNK_SIZE = 2
    /\ CHUNK_OVERLAP = 1
    /\ SessionStart
    /\ budget = 0
    /\ AppStart
    /\ directory \in Dirs
    /\ \E dir \in Dirs :
          LET built == rebuild_from_directory(NewStore, NoFiles, dir, TRUE, "ok")
          IN  /\ built.store.documents # <<>>
              /\ index = built.store.index
              /\ documents = built.store.documents
              /\ dimension = built.store.dimension
              /\ disk = built.disk
              /\ saved = Some(built.store)
    /\ vret = VRet("init", "-", None)
    /\ pc = [th \in {"rebuild", "search"} |-> "idle"]
    /\ local = [rebuild |-> RebuildLocals(NewStore),
                search |-> SearchLocals(<<>>, 1, NewStore, FALSE)]

RaceSpec == RaceInit /\ [][RaceNext]_vars

\* ---- two requests that call vector_store.rebuild_from_directory() ----
\* POST /api/rebuild-knowledge (app.py:363-376) served by two threads at once;
\* the source directory is not edited meanwhile
Rebuilders == {"r1", "r2"}

RebuilderLocals(docs, embeddings, r) == [docs |-> docs, embeddings |-> embeddings, ret |-> r]

RebuilderCall(th) ==
    /\ pc[th] = "idle"
    /\ Goto(th, "clear_index")
    /\ UNCHANGED <<cfgvars, svars, vvars, avars, local>>

\* self.index = None
ClearIndex(th) ==
    /\ pc[th] = "clear_index"
    /\ index' = None
    /\ Goto(th, "clear_documents")
    /\ UNCHANGED <<cfgvars, svars, avars, local, documents, dimension, disk,
                   directory, saved, vret>>

\* self.documents = []
ClearDocuments(th) ==
    /\ pc[th] = "clear_documents"
    /\ documents' = <<>>
    /\ Goto(th, "load_documents")
    /\ UNCHANGED <<cfgvars, svars, avars, local, index, dimension, disk,
                   directory, saved, vret>>

\* documents = load_documents_from_directory(directory); return if none
LoadDocuments(th) ==
    /\ pc[th] = "load_documents"
    /\ LET docs == load_documents_from_directory(directory)
       IN  /\ local' = [local EXCEPT ![th].docs = docs]
           /\ Goto(th, IF docs = <<>> THEN "done" ELSE "extend")
    /\ UNCHANGED <<cfgvars, svars, vvars, avars>>

\* add_documents: self.documents.extend(documents)
ExtendDocuments(th) ==
    /\ pc[th] = "extend"
    /\ documents' = documents \o local[th].docs
    /\ Goto(th, "embed")
    /\ UNCHANGED <<cfgvars, svars, avars, local, index, dimension, disk,
                   directory, saved, vret>>

\* add_documents: embeddings = embed_texts(texts), the encoder answering;
\* if self.index is None
EmbedTexts(th) ==
    /\ pc[th] = "embed"
    /\ LET docs == local[th].docs
           texts == [i \in 1..Len(docs) |-> docs[i].text]
       IN  local' = [local EXCEPT ![th].embeddings = embed_texts(texts, TRUE)]
    /\ Goto(th, IF index = None THEN "create_index" ELSE "index_add")
    /\ UNCHANGED <<cfgvars, svars, vvars, avars>>

\* create_index: self.dimension = ...; self.index = faiss.IndexFlatL2(...)
AssignNewIndex(th) ==
    /\ pc[th] = "create_index"
    /\ LET d == Len(local[th].embeddings[1])
       IN  /\ dimension' = Some(d)
           /\ index' = Some([d |-> d, xb |-> <<>>])
    /\ Goto(th, "index_add")
    /\ UNCHANGED <<cfgvars, svars, avars, local, documents, disk, directory,
                   saved, vret>>

\* self.index.add(embeddings) on the index self.index names by now; with
\* self.index None the attribute access raises and the route answers 500
AddToIndex(th) ==
    /\ pc[th] = "index_add"
    /\ IF index = None
       THEN /\ local' = [local EXCEPT ![th].ret = Returned("AttributeError", None)]
            /\ Goto(th, "done")
            /\ UNCHANGED index
       ELSE /\ index' = Some(IndexAdd(index[1], local[th].embeddings))
            /\ Goto(th, "save")
            /\ UNCHANGED local
    /\ UNCHANGED <<cfgvars, svars, avars, documents, dimension, disk, directory,
                   saved, vret>>

\* self.save(), the writes succeeding, and return
SaveRebuilt(th) ==
    /\ pc[th] = "save"
    /\ disk' = save(TheStore, disk, "ok")
    /\ saved' = Saved(TRUE, TheStore, disk', "ok")
    /\ Goto(th, "done")
    /\ UNCHANGED <<cfgvars, svars, avars, local, index, documents, dimension,
                   directory, vret>>

RebuildRaceNext ==
    \/ \E th \in Rebuilders : RebuilderCall(th)
    \/ \E th \in Rebuilders : ClearIndex(th)
    \/ \E th \in Rebuilders : ClearDocuments(th)
    \/ \E th \in Rebuilders : LoadDocuments(th)
    \/ \E th \in Rebuilders : ExtendDocuments(th)
    \/ \E th \in Rebuilders : EmbedTexts(th)
    \/ \E th \in Rebuilders : AssignNewIndex(th)
    \/ \E th \in Rebuilders : AddToIndex(th)
    \/ \E th \in Rebuilders : SaveRebuilt(th)

\* the store is new or was built and saved from a directory with documents
RebuildRaceInit ==
    /\ MAX_SESSION_MESSAGES = 2
    /\ SESSION_TIMEOUT = 1
    /\ CHUNK_SIZE = 2
    /\ CHUNK_OVERLAP = 1
    /\ SessionStart
    /\ budget = 0
    /\ AppStart
    /\ directory \in Dirs
    /\ \E dir \in Dirs :
          LET built == rebuild_from_directory(NewStore, NoFiles, dir, TRUE, "ok")
          IN  /\ index = built.store.index
              /\ documents = built.store.documents
              /\ dimension = built.store.dimension
              /\ disk = built.disk
              /\ saved = IF built.store.index # None THEN Some(built.store) ELSE None
    /\ vret = VRet("init", "-", None)
    /\ pc = [th \in Rebuilders |-> "idle"]
    /\ local = [th \in Rebuilders |-> RebuilderLocals(<<>>, <<>>, Returned("-", None))]

RebuildRaceSpec == RebuildRaceInit /\ [][RebuildRaceNext]_vars

\* ---- two requests of one session id, each in Session.add_message ----
\* the largest cap of the sessions two requests append to
MaxRaceCap == 3

Appenders == {"t1", "t2"}

\* the content each request appends
ContentOf(th) == IF th = "t1" THEN "a" ELSE "b"

\* the content of the k-th message the session already holds
Prior == [k \in 1..MaxRaceCap |-> "p" \o ToString(k)]

\* the session of id s1 after k messages were appended to it one after another
RECURSIVE Filled(_)
Filled(k) ==
    IF k = 0 THEN NewSession("s1", 0)
    ELSE add_message(Filled(k - 1), "user", Prior[k], 0, 0)

AppendLocals(role, content, start) ==
    [role |-> role, content |-> content, start |-> start, trimmed |-> <<>>]

\* session_obj.add_message(role, content) is called (app.py:227);
\* message = Message(role, content, time.time())
AddMessageCall(th, role) ==
    /\ pc[th] = "idle"
    /\ Goto(th, "append")
    /\ local' = [local EXCEPT ![th].role = role]
    /\ UNCHANGED <<cfgvars, svars, vvars, avars>>

\* self.messages.append(message)
AddMessageAppend(th) ==
    /\ pc[th] = "append"
    /\ LET message == Message(local[th].role, local[th].content, now)
       IN  /\ sessions' = [sessions EXCEPT !["s1"].messages = Append(@, message)]
           /\ appended' = [appended EXCEPT !["s1"] = Append(@, message)]
    /\ Goto(th, "touch")
    /\ UNCHANGED <<cfgvars, vvars, avars, local, now, budget, ret>>

\* self.last_activity = time.time()
AddMessageTouch(th) ==
    /\ pc[th] = "touch"
    /\ sessions' = [sessions EXCEPT !["s1"].last_activity = now]
    /\ Goto(th, "check")
    /\ UNCHANGED <<cfgvars, vvars, avars, local, now, appended, budget, ret>>

\* if len(self.messages) > MAX_SESSION_MESSAGES
AddMessageCheck(th) ==
    /\ pc[th] = "check"
    /\ Goto(th, IF Len(sessions["s1"].messages) > MAX_SESSION_MESSAGES
                THEN "trim_read" ELSE "done")
    /\ UNCHANGED <<cfgvars, svars, vvars, avars, local>>

\* the right-hand side [self.messages[0]] + self.messages[-(M-1):] is built
AddMessageTrimRead(th) ==
    /\ pc[th] = "trim_read"
    /\ local' = [local EXCEPT ![th].trimmed =
                    <<sessions["s1"].messages[1]>>
                      \o PySliceFrom(sessions["s1"].messages,
                                     -(MAX_SESSION_MESSAGES - 1))]
    /\ Goto(th, "trim_write")
    /\ UNCHANGED <<cfgvars, svars, vvars, avars>>

\* self.messages = <the list built>
AddMessageTrimWrite(th) ==
    /\ pc[th] = "trim_write"
    /\ sessions' = [sessions EXCEPT !["s1"].messages = local[th].trimmed]
    /\ Goto(th, "done")
    /\ UNCHANGED <<cfgvars, vvars, avars, local, now, appended, budget, ret>>

AppendRaceNext ==
    \/ \E th \in Appenders, role \in Roles : AddMessageCall(th, role)
    \/ \E th \in Appenders : AddMessageAppend(th)
    \/ \E th \in Appenders : AddMessageTouch(th)
    \/ \E th \in Appenders : AddMessageCheck(th)
    \/ \E th \in Appenders : AddMessageTrimRead(th)
    \/ \E th \in Appenders : AddMessageTrimWrite(th)

\* a session that holds up to M messages, for the caps from 2
AppendRaceInit ==
    /\ MAX_SESSION_MESSAGES \in 2..MaxRaceCap
    /\ SESSION_TIMEOUT = 1
    /\ CHUNK_SIZE = 2
    /\ CHUNK_OVERLAP = 1
    /\ now = 0
    /\ \E k \in 0..MAX_SESSION_MESSAGES :
          /\ sessions = [sid \in {"s1"} |-> Filled(k)]
          /\ appended = [sid \in {"s1"} |-> Filled(k).messages]
          /\ local = [th \in Appenders |->
                         AppendLocals("user", ContentOf(th), Filled(k))]
    /\ ret = Ret("init", "-", None, {})
    /\ budget = 0
    /\ StoreStart
    /\ directory = <<>>
    /\ AppStart
    /\ pc = [th \in Appenders |-> "idle"]

AppendRaceSpec == AppendRaceInit /\ [][AppendRaceNext]_vars

----------------------------------------------------------------------------
(***************************************************************************)
(* Texts.  A text (a user message, a reply of the language model, the      *)
(* inside of a call's parentheses) is the sequence of its tokens: a word,  *)
(* a name, or one of the punctuation characters the patterns of            *)
(* extract_tool_calls tell apart.  White space is not kept.                *)
(***************************************************************************)
Quotes == {"\"", "'"}

\* the three patterns of extract_tool_calls, in the order of its list
ToolNames == <<"create_ticket", "check_order_status", "search_knowledge_base">>

\* the keys extract_tool_calls looks for, in the order of its tests
KnownKeys == <<"description", "priority", "category", "order_id", "query">>

\* the first position from i on where text holds tok, 0 when there is none
RECURSIVE IndexFrom(_, _, _)
IndexFrom(text, tok, i) ==
    IF i > Len(text) THEN 0
    ELSE IF text[i] = tok THEN i
    ELSE IndexFrom(text, tok, i + 1)

\* re.findall(name + r'\((.*?)\)', text, re.DOTALL) from position i on: the
\* insides of the non-overlapping matches, left to right, each reaching to the
\* first closing parenthesis
RECURSIVE FindAllFrom(_, _, _)
FindAllFrom(name, text, i) ==
    IF i >= Len(text) THEN <<>>
    ELSE IF text[i] = name /\ text[i + 1] = "(" /\ IndexFrom(text, ")", i + 2) # 0
         THEN LET j == IndexFrom(text, ")", i + 2)
              IN  <<SubSeq(text, i + 2, j - 1)>> \o FindAllFrom(name, text, j + 1)
         ELSE FindAllFrom(name, text, i + 1)

\* the names of the model that end with the name key: the tests and the
\* patterns for a key are not anchored at the start of a name
EndsWith(tok, key) == tok = key \/ (key = "query" /\ tok = "subquery")

\* 'key=' in match
HasKey(match, key) ==
    \E p \in 1..(Len(match) - 1) : EndsWith(match[p], key) /\ match[p + 1] = "="

\* the length of the longest run of tokens that are no quotes, from i on
RECURSIVE RunLength(_, _)
RunLength(text, i) ==
    IF i > Len(text) \/ text[i] \in Quotes THEN 0
    ELSE 1 + RunLength(text, i + 1)

\* key=["\']([^"\']+)["\'] matches at position p of match
ValueAt(match, key, p) ==
    /\ p + 3 <= Len(match)
    /\ EndsWith(match[p], key)
    /\ match[p + 1] = "="
    /\ match[p + 2] \in Quotes
    /\ RunLength(match, p + 3) >= 1
    /\ p + 3 + RunLength(match, p + 3) <= Len(match)

\* re.search(key + r'=["\']([^"\']+)["\']', match): None, or group(1) of the
\* leftmost match
SearchValue(match, key) ==
    LET ps == {p \in 1..Len(match) : ValueAt(match, key, p)}
    IN  IF ps = {} THEN None
        ELSE LET p == CHOOSE q \in ps : \A r \in ps : q <= r
             IN  Some(SubSeq(match, p + 3, p + 2 + RunLength(match, p + 3)))

\* the args dictionary parsed from the inside of one call (app.py:136-162)
ParseArgs(match) ==
    LET found == {k \in Range(KnownKeys) :
                     /\ match # <<>>
                     /\ HasKey(match, k)
                     /\ SearchValue(match, k) # None}
    IN  [k \in found |-> SearchValue(match, k)[1]]

ToolCall(tool, args) == [tool |-> tool, args |-> args]

\* the tool calls of one pattern
CallsOf(name, response) ==
    LET matches == FindAllFrom(name, response, 1)
    IN  [i \in 1..Len(matches) |-> ToolCall(name, ParseArgs(matches[i]))]

\* extract_tool_calls changed to take only the first match of each pattern
extract_first_tool_call(response) ==
    LET first(name) == IF CallsOf(name, response) = <<>> THEN <<>>
                       ELSE <<CallsOf(name, response)[1]>>
    IN  first(ToolNames[1]) \o first(ToolNames[2]) \o first(ToolNames[3])

\* extract_tool_calls changed to run its three patterns in the reverse order
extract_tool_calls_search_first(response) ==
    CallsOf(ToolNames[3], response) \o CallsOf(ToolNames[2], response)
        \o CallsOf(ToolNames[1], response)

\* extract_tool_calls changed to have a fourth pattern, delete_account\((.*?)\)
extract_tool_calls_of_four(response) ==
    CallsOf(ToolNames[1], response) \o CallsOf(ToolNames[2], response)
        \o CallsOf(ToolNames[3], response) \o CallsOf("delete_account", response)

\* extract_tool_calls (app.py:120-171)
extract_tool_calls(response) ==
    CallsOf(ToolNames[1], response) \o CallsOf(ToolNames[2], response)
        \o CallsOf(ToolNames[3], response)

----------------------------------------------------------------------------
(***************************************************************************)
(* The tools (tools/create_ticket.py, tools/order_status.py) and their     *)
(* dispatch (app.py:173-218).  An argument value is the text between its   *)
(* quotes.                                                                 *)
(***************************************************************************)
\* config.py:24, the default k of VectorStore.search
MAX_RETRIEVED_DOCS == 3

\* dict.get changed to return the empty string for an absent key
Get_empty(args, key, default) == IF key \in DOMAIN args THEN args[key] ELSE <<>>

\* dict.get(key, default)
Get(args, key, default) == IF key \in DOMAIN args THEN args[key] ELSE default

Priorities == {<<"low">>, <<"medium">>, <<"high">>}
Categories == {<<"technical">>, <<"billing">>, <<"general">>, <<"other">>}

\* Ticket (create_ticket.py:11-26); the id stands for "TK-" and 8 hex digits
\* of a new uuid4
Ticket(n, description, priority, category, t) ==
    [ticket_id |-> <<"TK", n>>, description |-> description,
     priority |-> priority, category |-> category, status |-> "open",
     created_at |-> t, updated_at |-> t]

\* TicketManager.create_ticket without its two validations
create_ticket_unvalidated(tks, description, priority, category, t) ==
    LET ticket == Ticket(Len(tks) + 1, description, priority, category, t)
    IN  [tickets |-> Append(tks, ticket), ticket |-> ticket]

\* TicketManager.create_ticket: the tickets afterwards and the ticket returned
create_ticket(tks, description, priority, category, t) ==
    LET ticket == Ticket(Len(tks) + 1, description,
                         IF priority \in Priorities THEN priority ELSE <<"medium">>,
                         IF category \in Categories THEN category ELSE <<"general">>,
                         t)
    IN  [tickets |-> Append(tks, ticket), ticket |-> ticket]

\* the ids of the sample orders (order_status.py:92-135)
OrderIds == {"ORD-001", "ORD-002", "ORD-003"}

\* str.upper() on the order ids of the model
Upper(tok) ==
    CASE tok \in {"ord-001", "Ord-001"} -> "ORD-001"
      [] tok \in {"ord-002", "Ord-002"} -> "ORD-002"
      [] tok \in {"ord-004", "Ord-004"} -> "ORD-004"
      [] tok \in {"ord-999", "Ord-999"} -> "ORD-999"
      [] OTHER -> tok

\* OrderManager.get_order on the dictionary orders, given by its keys: None
\* or the order stored under the key
get_order(orders, order_id) ==
    IF Len(order_id) = 1 /\ Upper(order_id[1]) \in orders
    THEN Some(Upper(order_id[1]))
    ELSE None

\* the string a dispatch returns: which message it is and what it names
Result(kind, arg, body) == [kind |-> kind, arg |-> arg, body |-> body]

\* what a dispatch meets: whether the encoder answers, the tools whose
\* collaborator raises, and the keys of OrderManager.orders
Env(ok, broken, orders) == [ok |-> ok, broken |-> broken, orders |-> orders]

\* a collaborator of the tool raised: no result string
Raised(tool_name, tks) ==
    [result |-> Result("raised", tool_name, <<>>), tickets |-> tks]

\* execute_tool_call changed to take every tool name for create_ticket
execute_any_as_create_ticket(tool_call, tks, st, t, env) ==
    LET made == create_ticket(tks,
                    Get(tool_call.args, "description", <<"No description provided">>),
                    Get(tool_call.args, "priority", <<"medium">>),
                    Get(tool_call.args, "category", <<"general">>), t)
    IN  [result |-> Result("created", made.ticket.ticket_id, made.ticket.priority),
         tickets |-> made.tickets]

\* the try block of execute_tool_call (app.py:178-214) at clock reading t:
\* the result string and the tickets afterwards
try_execute_tool_call(tool_call, tks, st, t, env) ==
    LET tool_name == tool_call.tool
        args == tool_call.args
    IN  CASE tool_name = "create_ticket" ->
                LET made == create_ticket(tks,
                                Get(args, "description", <<"No description provided">>),
                                Get(args, "priority", <<"medium">>),
                                Get(args, "category", <<"general">>), t)
                IN  IF tool_name \in env.broken THEN Raised(tool_name, tks)
                    ELSE [result |-> Result("created", made.ticket.ticket_id,
                                            made.ticket.priority),
                          tickets |-> made.tickets]
          [] tool_name = "check_order_status" ->
                LET order_id == Get(args, "order_id", <<>>)
                IN  IF order_id = <<>>
                    THEN [result |-> Result("provide_order_id", <<>>, <<>>),
                          tickets |-> tks]
                    ELSE IF tool_name \in env.broken
                    THEN Raised(tool_name, tks)
                    ELSE [result |->
                             IF get_order(env.orders, order_id) # None
                             THEN Result("order_status",
                                         get_order(env.orders, order_id)[1], <<>>)
                             ELSE Result("order_not_found", order_id, <<>>),
                          tickets |-> tks]
          [] tool_name = "search_knowledge_base" ->
                LET query == Get(args, "query", <<>>)
                    results == search(st, query, MAX_RETRIEVED_DOCS, env.ok)
                IN  IF query = <<>>
                    THEN [result |-> Result("provide_query", <<>>, <<>>),
                          tickets |-> tks]
                    ELSE IF tool_name \in env.broken
                    THEN Raised(tool_name, tks)
                    ELSE [result |->
                             IF results # <<>>
                             THEN Result("knowledge_base_results", <<>>,
                                         [i \in 1..Min(3, Len(results)) |->
                                             <<results[i].doc.text,
                                               results[i].doc.source>>])
                             ELSE Result("no_relevant_information", <<>>, <<>>),
                          tickets |-> tks]
          [] OTHER ->
                [result |-> Result("unknown_tool", tool_name, <<>>),
                 tickets |-> tks]

\* the except clause of execute_tool_call (app.py:216-218) on what the try
\* block yields
except_tool_Exception(r) ==
    IF r.result.kind = "raised"
    THEN [r EXCEPT !.result.kind = "error_executing"]
    ELSE r

\* execute_tool_call without its except clause
execute_tool_call_uncaught(tool_call, tks, st, t, env) ==
    try_execute_tool_call(tool_call, tks, st, t, env)

\* execute_tool_call (app.py:173-218)
execute_tool_call(tool_call, tks, st, t, env) ==
    except_tool_Exception(try_execute_tool_call(tool_call, tks, st, t, env))

\* the loop over the tool calls changed to dispatch every call twice
RECURSIVE tool_pass_twice(_, _, _, _, _)
tool_pass_twice(tool_calls, tks, st, t, env) ==
    IF tool_calls = <<>> THEN [tool_results |-> <<>>, tickets |-> tks]
    ELSE LET one == execute_tool_call(tool_calls[1], tks, st, t, env)
             two == execute_tool_call(tool_calls[1], one.tickets, st, t, env)
             rest == tool_pass_twice(Tail(tool_calls), two.tickets, st, t, env)
         IN  [tool_results |-> <<one.result, two.result>> \o rest.tool_results,
              tickets |-> rest.tickets]

\* the loop of generate_response over the tool calls (app.py:272-275): the
\* results in dispatch order and the tickets afterwards
RECURSIVE tool_pass(_, _, _, _, _)
tool_pass(tool_calls, tks, st, t, env) ==
    IF tool_calls = <<>> THEN [tool_results |-> <<>>, tickets |-> tks]
    ELSE LET one == execute_tool_call(tool_calls[1], tks, st, t, env)
             rest == tool_pass(Tail(tool_calls), one.tickets, st, t, env)
         IN  [tool_results |-> <<one.result>> \o rest.tool_results,
              tickets |-> rest.tickets]

----------------------------------------------------------------------------
(***************************************************************************)
(* The language-model backend (llm/ollama_client.py) and the turn          *)
(* (app.py:220-296).                                                       *)
(***************************************************************************)
\* how one POST to /api/generate ends: a reply text, or a failure of the
\* connection, of the HTTP status (raise_for_status) or a timeout
Reply(text) == [kind |-> "reply", text |-> text]
Failure(kind) == [kind |-> kind, text |-> <<>>]
Failures == {Failure("connection_error"), Failure("http_error"), Failure("timeout")}

\* f"Error: Unable to chat - {str(e)}"
ErrorText(kind) == <<"Error: Unable to chat -", kind>>

\* the prompt OllamaClient.chat builds from the messages (ollama_client.py:
\* 109-114): one part for every message of role system or assistant
RECURSIVE ChatPrompt(_)
ChatPrompt(messages) ==
    IF messages = <<>> THEN <<>>
    ELSE (CASE messages[1].role = "system" -> <<<<"System", messages[1].content>>>>
            [] messages[1].role = "assistant" -> <<<<"Assistant", messages[1].content>>>>
            [] OTHER -> <<>>)
         \o ChatPrompt(Tail(messages))

\* OllamaClient.chat (ollama_client.py:105-136): what was sent and what is
\* returned; every exception is caught and returned as a text
chat(messages, backend) ==
    [messages |-> messages, sent |-> ChatPrompt(messages),
     failed |-> backend.kind # "reply", raised |-> FALSE,
     text |-> IF backend.kind = "reply" THEN backend.text
              ELSE ErrorText(backend.kind)]

\* a word that is a token of the lower-cased message
HasWord(user_message, words) == \E i \in DOMAIN user_message : user_message[i] \in words

\* generate_fallback_response (app.py:56-118): which canned response
generate_fallback_response(user_message) ==
    CASE HasWord(user_message, {"hello", "hi", "hey", "greetings"}) -> <<"fallback: greeting">>
      [] HasWord(user_message, {"help", "capabilities"}) -> <<"fallback: help">>
      [] HasWord(user_message, {"order", "status", "track"}) ->
            IF HasWord(user_message, {"ord-001", "ord-002", "ord-999"})
            THEN <<"fallback: order, try again">>
            ELSE <<"fallback: provide order id">>
      [] HasWord(user_message, {"ticket", "support", "issue", "problem"}) -> <<"fallback: ticket">>
      [] HasWord(user_message, {"product", "service", "offer"}) -> <<"fallback: products">>
      [] OTHER -> <<"fallback: limited mode">> \o user_message

\* ERROR_MESSAGES["model_error"] (prompts.py:101)
MODEL_ERROR == <<"I'm experiencing technical difficulties.",
                 "Please try again or contact human support.">>

SYSTEM_PROMPT == <<"SYSTEM_PROMPT">>

\* the prompt composed for the user role (app.py:241-254, 280): the template
\* and what fills it
Prompt(template, history, context, message) ==
    [template |-> template, history |-> history, context |-> context,
     message |-> message, tool_results |-> <<>>]

compose(history, context, user_message) ==
    IF context # <<>> /\ history # <<>>
    THEN Prompt("CHAT_WITH_CONTEXT_TEMPLATE", history, context, user_message)
    ELSE IF context # <<>>
    THEN Prompt("RAG_PROMPT_TEMPLATE", <<>>, context, user_message)
    ELSE Prompt("-", <<>>, <<>>, user_message)

Messages(prompt) ==
    <<[role |-> "system", content |-> SYSTEM_PROMPT],
      [role |-> "user", content |-> prompt]>>

\* the steps of generate_response in which an exception can be raised, and
\* "-" for a turn without one
Faults == {"-", "lookup", "append_user", "search", "compose", "tool_pass",
           "append_reply"}

\* what a turn did and returned: outcome is "done", "fallback" or "error", or
\* "raised" when the call ended by an exception; exception is the step that
\* raised, "-" when none did; env is what its dispatches met
Turn(sid, user_message, env, outcome, exception, reply, invocations, tool_calls, tool_results) ==
    [session_id |-> sid, user_message |-> user_message, env |-> env, outcome |-> outcome,
     exception |-> exception, reply |-> reply, invocations |-> invocations,
     tool_calls |-> tool_calls, tool_results |-> tool_results]

\* the history lines changed to hold the current user message as well
History10_with_current(session) ==
    LET recent == get_recent_messages(session, 10)
    IN  [i \in 1..Len(recent) |-> <<recent[i].role, recent[i].content>>]

\* the history lines of generate_response (app.py:236-239): the recent
\* messages but the last
History10(session) ==
    LET recent == get_recent_messages(session, 10)
    IN  [i \in 1..(Len(recent) - 1) |-> <<recent[i].role, recent[i].content>>]

\* the try block of generate_response (app.py:223-292) at clock reading t.
\* b1 and b2 are how the first and the second request to the backend end,
\* fault is the step that raises, env is what the dispatches meet.  The
\* result is the session map and the tickets afterwards, the messages the
\* turn appended to its session and what the turn did.  Each step hands what
\* it computed to the next one.
try_generate_response(map, tks, st, sid, user_message, t, b1, b2, fault, env) ==
    LET user == Message("user", user_message, t)
        return(m, k, appends, outcome, reply, invocations, calls, results) ==
            [sessions |-> m, tickets |-> k, appends |-> appends,
             turn |-> Turn(sid, user_message, env, outcome, "-", reply, invocations,
                           calls, results)]
        raise(m, k, appends, invocations, calls, results) ==
            [sessions |-> m, tickets |-> k, appends |-> appends,
             turn |-> Turn(sid, user_message, env, "raised", fault, <<>>, invocations,
                           calls, results)]
        error(m, k, appends, invocations) ==
            raise(m, k, appends, invocations, <<>>, <<>>)
        \* lines 264-266 and 285-287
        fallback(m, k, invocations, calls, results) ==
            return(m, k, <<user>>, "fallback",
                   generate_fallback_response(user_message), invocations, calls,
                   results)
        \* lines 289-292
        done(m, k, response, invocations, calls, results) ==
            IF fault = "append_reply"
            THEN raise(m, k, <<user>>, invocations, calls, results)
            ELSE return([m EXCEPT ![sid] = add_message(@, "assistant", response, t, t)],
                        k, <<user, Message("assistant", response, t)>>, "done",
                        response, invocations, calls, results)
        \* lines 283-287
        second_chat(s2, first, tool_calls, pass, second) ==
            IF second.raised
            THEN fallback(s2, pass.tickets, <<first, second>>, tool_calls,
                          pass.tool_results)
            ELSE done(s2, pass.tickets, second.text, <<first, second>>, tool_calls,
                      pass.tool_results)
        \* lines 277-283
        with_results(s2, prompt, first, tool_calls, pass) ==
            second_chat(s2, first, tool_calls, pass,
                        chat(Messages([prompt EXCEPT
                                          !.tool_results = pass.tool_results]), b2))
        \* lines 270-275
        with_calls(s2, prompt, first, tool_calls) ==
            IF tool_calls = <<>> THEN done(s2, tks, first.text, <<first>>, <<>>, <<>>)
            ELSE with_results(s2, prompt, first, tool_calls,
                              tool_pass(tool_calls, tks, st, t, env))
        \* lines 262-269
        first_chat(s2, prompt, first) ==
            IF first.raised THEN fallback(s2, tks, <<first>>, <<>>, <<>>)
            ELSE IF fault = "tool_pass" THEN error(s2, tks, <<user>>, <<first>>)
            ELSE with_calls(s2, prompt, first, extract_tool_calls(first.text))
        \* lines 256-262
        with_prompt(s2, prompt) == first_chat(s2, prompt, chat(Messages(prompt), b1))
        \* lines 231-254
        with_context(s2, context_docs) ==
            with_prompt(s2, compose(History10(s2[sid]),
                                    [i \in 1..Len(context_docs) |->
                                        context_docs[i].doc.text],
                                    user_message))
        \* lines 229-230
        with_user(s2) ==
            IF fault \in {"search", "compose"} THEN error(s2, tks, <<user>>, <<>>)
            ELSE with_context(s2, search(st, user_message, MAX_RETRIEVED_DOCS, env.ok))
        \* lines 226-227
        with_session(s1) ==
            IF fault = "append_user" THEN error(s1, tks, <<>>, <<>>)
            ELSE with_user([s1 EXCEPT ![sid] =
                               add_message(@, "user", user_message, t, t)])
    IN  \* lines 223-224
        IF fault = "lookup" THEN error(map, tks, <<>>, <<>>)
        ELSE with_session(get_or_create_session(map, sid, t).sessions)

\* the except clause of generate_response (app.py:294-296) on what the try
\* block yields
except_Exception(r) ==
    IF r.turn.outcome = "raised"
    THEN [r EXCEPT !.turn.outcome = "error", !.turn.reply = MODEL_ERROR]
    ELSE r

\* generate_response without its except clause
generate_response_uncaught(map, tks, st, sid, user_message, t, b1, b2, fault, env) ==
    try_generate_response(map, tks, st, sid, user_message, t, b1, b2, fault, env)

\* generate_response (app.py:220-296)
generate_response(map, tks, st, sid, user_message, t, b1, b2, fault, env) ==
    except_Exception(
        try_generate_response(map, tks, st, sid, user_message, t, b1, b2, fault, env))

(***************************************************************************)
(* Turns: POST /api/chat hands the session id and the message to           *)
(* generate_response (app.py:303-329).                                     *)
(***************************************************************************)
MaxTurns == 1      \* generate_response calls explored after the initial state

UserMessages == {<<"hello">>, <<"reset", "password">>}

\* create_ticket(description="printer jam", priority="high", category="technical")
CallTicket ==
    <<"create_ticket", "(", "description", "=", "\"", "printer", "jam", "\"", ",",
      "priority", "=", "\"", "high", "\"", ",",
      "category", "=", "\"", "technical", "\"", ")">>

\* check_order_status(order_id="ord-001")
CallOrder == <<"check_order_status", "(", "order_id", "=", "\"", "ord-001", "\"", ")">>

\* search_knowledge_base(query='billing')
CallSearch == <<"search_knowledge_base", "(", "query", "=", "'", "billing", "'", ")">>

\* replies of the language model: one without a call, one with a call, one
\* with calls of the three tools
FirstReplies ==
    {<<"Sure", ".">>, <<"I", "will">> \o CallTicket,
     CallSearch \o <<"and">> \o CallOrder \o <<"and">> \o CallTicket}

\* replies to the prompt with the tool results: without and with a call
SecondReplies == {<<"Done", ".">>, <<"Now">> \o CallTicket}

Backends(replies) == {Reply(text) : text \in replies} \cup Failures

\* the sets of tools whose collaborator raises: none, one, all
BrokenSets ==
    {{}, {"create_ticket"}, {"check_order_status"}, {"search_knowledge_base"},
     {"create_ticket", "check_order_status", "search_knowledge_base"}}

\* what happens to a turn: how its two requests to the backend end, the step
\* that raises and what the dispatches meet.  Every pair of backend outcomes
\* is explored; the encoder, the steps and the tools fail one kind at a time.
TurnInputs ==
    {<<b1, b2, "-", Env(TRUE, {}, OrderIds)>> :
        b1 \in Backends(FirstReplies), b2 \in Backends(SecondReplies)}
    \cup {<<Reply(text), Reply(<<"Done", ".">>), "-", Env(FALSE, {}, OrderIds)>> :
            text \in FirstReplies}
    \cup {<<b1, Reply(<<"Done", ".">>), fault, Env(TRUE, {}, OrderIds)>> :
            b1 \in {Reply(<<"I", "will">> \o CallTicket), Failure("timeout")},
            fault \in Faults \ {"-"}}
    \cup {<<Reply(text), Reply(<<"Done", ".">>), "-", Env(TRUE, broken, OrderIds)>> :
            text \in FirstReplies \ {<<"Sure", ".">>}, broken \in BrokenSets \ {{}}}

\* the history after a turn that appended the messages appends
Appended(hist, sid, appends) ==
    IF sid \in DOMAIN hist THEN [hist EXCEPT ![sid] = @ \o appends] ELSE hist

\* the state after a call of generate_response that yields r
Responded(sid, r) ==
    /\ sessions' = r.sessions
    /\ tickets' = r.tickets
    /\ turn' = Some(r.turn)
    /\ appended' =
          Appended(History(sessions, appended,
                           IF r.turn.exception = "lookup" THEN sessions
                           ELSE get_or_create_session(sessions, sid, now).sessions),
                   sid, r.appends)
    /\ ret' = Ret("generate_response", sid, Some(r.turn.reply), {})

GenerateResponse(sid, user_message, b1, b2, fault, env) ==
    /\ budget > 0
    /\ Responded(sid, generate_response(sessions, tickets, TheStore, sid,
                                        user_message, now, b1, b2, fault, env))
    /\ budget' = budget - 1
    /\ UNCHANGED <<cfgvars, vvars, tvars, now>>

TurnNext ==
    \E sid \in SessionIds, user_message \in UserMessages, input \in TurnInputs :
          GenerateResponse(sid, user_message, input[1], input[2], input[3], input[4])

\* an earlier turn of session s1 that the backend answered without a call
EarlierTurn ==
    generate_response(EmptyMap, <<>>, NewStore, "s1", <<"hello">>, 0,
                      Reply(<<"Sure", ".">>), Reply(<<"Done", ".">>), "-", Env(TRUE, {}, OrderIds))

\* the application after initialize_app, with a knowledge base or without,
\* before its first request or after a first turn
TurnInit ==
    /\ MAX_SESSION_MESSAGES \in {2, 50}
    /\ SESSION_TIMEOUT = 1
    /\ CHUNK_SIZE = 2
    /\ CHUNK_OVERLAP = 1
    /\ now = 0
    /\ \E earlier \in {[sessions |-> EmptyMap, appends |-> <<>>], EarlierTurn} :
          /\ sessions = earlier.sessions
          /\ appended = [sid \in DOMAIN earlier.sessions |-> earlier.appends]
    /\ ret = Ret("init", "-", None, {})
    /\ budget = MaxTurns
    /\ ThreadsStart
    /\ AppStart
    /\ directory = <<FileA, FileB>>
    /\ \E dir \in {<<FileE>>, <<FileA, FileB>>} :
          LET built == initialize_app(NewStore, NoFiles, dir, TRUE, "ok")
          IN  /\ index = built.store.index
              /\ documents = built.store.documents
              /\ dimension = built.store.dimension
              /\ disk = built.disk
              /\ saved = IF built.store.index # None THEN Some(built.store) ELSE None
    /\ vret = VRet("init", "-", None)

TurnSpec == TurnInit /\ [][TurnNext]_vars

----------------------------------------------------------------------------
(***************************************************************************)
(* Replies and their tool calls: generate_response's steps from the reply  *)
(* of the backend to the tool results (app.py:269-275), on replies put     *)
(* together from segments.  A segment is a piece of text and, when it is   *)
(* an invocation, the tool and the arguments written in it.                *)
(***************************************************************************)
MaxSegments == 2   \* the segments of a reply: 0..MaxSegments

NoArgs == [k \in {} |-> <<>>]

Segment(text, tool, args) == [text |-> text, tool |-> tool, args |-> args]

Segments ==
    {Segment(<<"ok">>, "-", NoArgs),
     Segment(CallTicket, "create_ticket",
             [description |-> <<"printer", "jam">>, priority |-> <<"high">>,
              category |-> <<"technical">>]),
     Segment(CallOrder, "check_order_status", [order_id |-> <<"ord-001">>]),
     Segment(CallSearch, "search_knowledge_base", [query |-> <<"billing">>]),
     \* check_order_status()
     Segment(<<"check_order_status", "(", ")">>, "check_order_status", NoArgs),
     \* create_ticket(description='slow', urgency="now")
     Segment(<<"create_ticket", "(", "description", "=", "'", "slow", "'", ",",
               "urgency", "=", "\"", "now", "\"", ")">>,
             "create_ticket", [description |-> <<"slow">>]),
     \* create_ticket(description="jam (tray 2)", priority="high")
     Segment(<<"create_ticket", "(", "description", "=", "\"", "jam", "(", "tray",
               "2", ")", "\"", ",", "priority", "=", "\"", "high", "\"", ")">>,
             "create_ticket",
             [description |-> <<"jam", "(", "tray", "2", ")">>,
              priority |-> <<"high">>]),
     \* search_knowledge_base(subquery="refund")
     Segment(<<"search_knowledge_base", "(", "subquery", "=", "\"", "refund", "\"",
               ")">>,
             "search_knowledge_base", NoArgs),
     \* delete_account(description="all"), the name of no tool
     Segment(<<"delete_account", "(", "description", "=", "\"", "all", "\"", ")">>,
             "-", NoArgs)}

\* the replies of at most n segments, as sequences of segments
RECURSIVE Replies(_)
Replies(n) ==
    IF n = 0 THEN {<<>>}
    ELSE Replies(n - 1) \cup
         {Append(r, s) : r \in {x \in Replies(n - 1) : Len(x) = n - 1}, s \in Segments}

\* the text of a reply
RECURSIVE TextOf(_)
TextOf(segments) ==
    IF segments = <<>> THEN <<>> ELSE segments[1].text \o TextOf(Tail(segments))

\* the locals of generate_response between its lines 262 and 275
ReplyLocals(segments, tool_calls, tool_results) ==
    [segments |-> segments, response |-> TextOf(segments),
     tool_calls |-> tool_calls, tool_results |-> tool_results]

\* tool_calls = extract_tool_calls(response) (app.py:269)
ExtractToolCalls ==
    /\ pc["main"] = "reply"
    /\ local' = [local EXCEPT !["main"].tool_calls =
                                  extract_tool_calls(local["main"].response)]
    /\ Goto("main", "extracted")
    /\ UNCHANGED <<cfgvars, svars, vvars, avars>>

\* the loop over tool_calls (app.py:270-275)
ExecuteToolCalls ==
    /\ pc["main"] = "extracted"
    /\ LET pass == tool_pass(local["main"].tool_calls, tickets, TheStore, now,
                            Env(TRUE, {}, OrderIds))
       IN  /\ local' = [local EXCEPT !["main"].tool_results = pass.tool_results]
           /\ tickets' = pass.tickets
    /\ Goto("main", "dispatched")
    /\ UNCHANGED <<cfgvars, svars, vvars, turn>>

ExtractNext ==
    \/ ExtractToolCalls
    \/ ExecuteToolCalls

ExtractInit ==
    /\ MAX_SESSION_MESSAGES = 50
    /\ SESSION_TIMEOUT = 1
    /\ CHUNK_SIZE = 2
    /\ CHUNK_OVERLAP = 1
    /\ SessionStart
    /\ budget = 0
    /\ AppStart
    /\ directory = <<FileA, FileB>>
    /\ LET built == initialize_app(NewStore, NoFiles, directory, TRUE, "ok")
       IN  /\ index = built.store.index
           /\ documents = built.store.documents
           /\ dimension = built.store.dimension
           /\ disk = built.disk
           /\ saved = Some(built.store)
    /\ vret = VRet("init", "-", None)
    /\ pc = [th \in {"main"} |-> "reply"]
    /\ \E segments \in Replies(MaxSegments) :
          local = [th \in {"main"} |-> ReplyLocals(segments, <<>>, <<>>)]

ExtractSpec == ExtractInit /\ [][ExtractNext]_vars

----------------------------------------------------------------------------
(***************************************************************************)
(* Dispatches: execute_tool_call (app.py:173-218) called on tool calls of  *)
(* every shape, with the order store as the sample orders leave it or as   *)
(* loaded from data/orders.json.                                           *)
(***************************************************************************)
MaxDispatches == 2   \* execute_tool_call calls explored in one behaviour

\* the keys of OrderManager.orders: the sample orders, or the orders of a
\* storage file (order_status.py:59-72), whose keys are kept as written
OrderStores == {OrderIds, {"ORD-001", "ORD-004"}, {"ord-004"}}

\* tool calls: of a tool that is not known, without arguments, with some
\* arguments, with values outside the sets create_ticket accepts, and order
\* lookups in several letter cases
DispatchCalls ==
    {ToolCall("delete_account", NoArgs),
     ToolCall("Create_Ticket", [description |-> <<"jam">>]),
     ToolCall("create_ticket", NoArgs),
     ToolCall("create_ticket", [description |-> <<"jam">>]),
     ToolCall("create_ticket", [priority |-> <<"low">>, category |-> <<"billing">>]),
     ToolCall("create_ticket", [description |-> <<"jam">>, priority |-> <<"urgent">>,
                                category |-> <<"sales">>]),
     ToolCall("create_ticket", [description |-> <<"jam">>, priority |-> <<"High">>,
                                category |-> <<"other">>]),
     ToolCall("check_order_status", NoArgs),
     ToolCall("check_order_status", [order_id |-> <<"ORD-001">>]),
     ToolCall("check_order_status", [order_id |-> <<"Ord-001">>]),
     ToolCall("check_order_status", [order_id |-> <<"ord-004">>]),
     ToolCall("check_order_status", [order_id |-> <<"ORD-999">>]),
     ToolCall("search_knowledge_base", NoArgs),
     ToolCall("search_knowledge_base", [query |-> <<"billing">>])}

\* what dispatches meet: every order store, with collaborators that answer
\* or that all raise
DispatchEnvs ==
    {Env(TRUE, broken, orders) :
        broken \in {{}, {"create_ticket", "check_order_status", "search_knowledge_base"}},
        orders \in OrderStores}

\* the locals of execute_tool_call and what it returned
DispatchLocals(tool_call, env, result) ==
    [tool_call |-> tool_call, env |-> env, result |-> result]

\* the state after a call of execute_tool_call that yields r
Dispatched(tool_call, env, r) ==
    /\ tickets' = r.tickets
    /\ local' = [local EXCEPT !["main"] = DispatchLocals(tool_call, env, r.result)]
    /\ Goto("main", "returned")

ExecuteToolCall(tool_call, env) ==
    /\ budget > 0
    /\ Dispatched(tool_call, env,
                  execute_tool_call(tool_call, tickets, TheStore, now, env))
    /\ budget' = budget - 1
    /\ UNCHANGED <<cfgvars, vvars, now, sessions, appended, ret, turn>>

DispatchNext ==
    \E tool_call \in DispatchCalls, env \in DispatchEnvs : ExecuteToolCall(tool_call, env)

DispatchInit ==
    /\ MAX_SESSION_MESSAGES = 50
    /\ SESSION_TIMEOUT = 1
    /\ CHUNK_SIZE = 2
    /\ CHUNK_OVERLAP = 1
    /\ SessionStart
    /\ budget = MaxDispatches
    /\ AppStart
    /\ directory = <<FileA, FileB>>
    /\ LET built == initialize_app(NewStore, NoFiles, directory, TRUE, "ok")
       IN  /\ index = built.store.index
           /\ documents = built.store.documents
           /\ dimension = built.store.dimension
           /\ disk = built.disk
           /\ saved = Some(built.store)
    /\ vret = VRet("init", "-", None)
    /\ pc = [th \in {"main"} |-> "idle"]
    /\ local = [th \in {"main"} |->
                   DispatchLocals(ToolCall("-", NoArgs), Env(TRUE, {}, OrderIds),
                                  Result("-", <<>>, <<>>))]

DispatchSpec == DispatchInit /\ [][DispatchNext]_vars

----------------------------------------------------------------------------
(***************************************************************************)
(* The loop of chunk_text (rag/embedded.py:20-42), one iteration a step,   *)
(* under every configuration config.py reads from the environment.  A text *)
(* here is a sequence of words and of runs of white space (" ").           *)
(***************************************************************************)
MaxTextLen == 4      \* words and runs of white space in a text
MaxChunkSize == 3    \* CHUNK_SIZE is 1..MaxChunkSize, CHUNK_OVERLAP 0..MaxChunkSize

\* iterations of the while loop explored in one call
MaxIterations == MaxTextLen + 2

ChunkTexts == UNION {[1..n -> {" ", "reset", "billing"}] : n \in 0..MaxTextLen}

IsWord(tok) == tok # " "

\* text.split()
split(text) == SelectSeq(text, IsWord)

\* the bounds of the slice words[start:end] within 0..len(words)
SliceBound(words, i) == IF i < 0 THEN Max(Len(words) + i, 0) ELSE Min(i, Len(words))

\* words[start:end]
Slice(words, start, end) ==
    IF SliceBound(words, start) >= SliceBound(words, end) THEN <<>>
    ELSE SubSeq(words, SliceBound(words, start) + 1, SliceBound(words, end))

\* the cursor moved to the end of the window
NextStart_at_end(end) == end

\* start = end - self.chunk_overlap
NextStart(end) == end - CHUNK_OVERLAP

\* the locals of chunk_text; windows records, for every chunk appended, the
\* bounds of its slice of words
ChunkLocals(text, words, start, chunks, windows, iterations) ==
    [text |-> text, words |-> words, start |-> start, chunks |-> chunks,
     windows |-> windows, iterations |-> iterations]

\* the locals after an iteration that sliced chunk_words
Iterated(l, end, chunk_words) ==
    [l EXCEPT !.chunks = IF chunk_words # <<>> THEN Append(@, chunk_words) ELSE @,
              !.windows = IF chunk_words # <<>>
                          THEN Append(@, <<SliceBound(l.words, l.start),
                                           SliceBound(l.words, end)>>)
                          ELSE @,
              !.start = IF end >= Len(l.words) THEN @ ELSE NextStart(end),
              !.iterations = @ + 1]

\* chunk_text up to the loop: 'if not text: return []', words = text.split()
ChunkTextCall ==
    /\ pc["main"] = "chunk_text"
    /\ local' = [local EXCEPT !["main"].words = split(local["main"].text)]
    /\ Goto("main", IF local["main"].text = <<>> THEN "done" ELSE "while")
    /\ UNCHANGED <<cfgvars, svars, vvars, tickets, turn>>

\* one test of 'while start < len(words)' and, if it holds, one iteration
ChunkTextWhile ==
    /\ pc["main"] = "while"
    /\ local["main"].iterations < MaxIterations
    /\ IF local["main"].start < Len(local["main"].words)
       THEN /\ local' = [local EXCEPT !["main"] =
                           Iterated(@, @.start + CHUNK_SIZE,
                                    Slice(@.words, @.start, @.start + CHUNK_SIZE))]
            /\ Goto("main", IF local["main"].start + CHUNK_SIZE >= Len(local["main"].words)
                            THEN "done" ELSE "while")
       ELSE /\ Goto("main", "done")
            /\ UNCHANGED local
    /\ UNCHANGED <<cfgvars, svars, vvars, tickets, turn>>

ChunkNext == ChunkTextCall \/ ChunkTextWhile

ChunkInit ==
    /\ MAX_SESSION_MESSAGES = 50
    /\ SESSION_TIMEOUT = 1
    /\ CHUNK_SIZE \in 1..MaxChunkSize
    /\ CHUNK_OVERLAP \in 0..MaxChunkSize
    /\ SessionStart
    /\ budget = 0
    /\ AppStart
    /\ directory = <<>>
    /\ index = NewStore.index
    /\ documents = NewStore.documents
    /\ dimension = NewStore.dimension
    /\ disk = NoFiles
    /\ saved = None
    /\ vret = VRet("init", "-", None)
    /\ pc = [th \in {"main"} |-> "chunk_text"]
    /\ \E text \in ChunkTexts :
          local = [th \in {"main"} |-> ChunkLocals(text, <<>>, 0, <<>>, <<>>, 0)]

ChunkSpec == ChunkInit /\ [][ChunkNext]_vars

\* the interpreter runs the loop on: every iteration that can be taken is taken
ChunkFairSpec == ChunkSpec /\ WF_vars(ChunkNext)

----------------------------------------------------------------------------
(***************************************************************************)
(* The session store under threads.  SessionManager holds no lock, so the  *)
(* calls of concurrent requests interleave between the reads and writes of *)
(* self.sessions.  One thread runs get_session_stats, one runs             *)
(* cleanup_expired_sessions, two run get_session on the expired session s1 *)
(* and one runs create_session for s2.  Iterating a dict raises            *)
(* RuntimeError as soon as the dict holds another number of keys than it   *)
(* did when the iteration began.                                           *)
(***************************************************************************)
SweepThreads == {"stats", "cleanup", "get1", "get2", "create"}

Getters == {"get1", "get2"}

\* the threads that go through remove_session
Removers == Getters \cup {"cleanup"}

\* the locals of a call: the number of keys the dict held when its iteration
\* began, the keys iterated so far, total_messages, the value read for
\* 'active_sessions', the ids still to be removed, what the call returned and
\* the maps the store held while get_session_stats was running
SweepLocals(size, visited, total, active, expired, r, held) ==
    [size |-> size, visited |-> visited, total |-> total, active |-> active,
     expired |-> expired, ret |-> r, held |-> held]

\* a dict is iterated in the order its keys were inserted: s1 is there from the
\* start and s2 is created later
FirstKey(keys) == IF "s1" \in keys THEN "s1" ELSE "s2"

\* thread th moves to locals l and leaves the store holding map, which
\* get_session_stats, while it runs, may observe
SweepStep(th, l, map) ==
    /\ sessions' = map
    /\ local' = [t \in SweepThreads |->
                    LET r == IF t = th THEN l ELSE local[t]
                    IN  IF t = "stats" /\ (th = "stats" \/ pc["stats"] \notin {"idle", "done"})
                        THEN [r EXCEPT !.held = @ \cup {map}]
                        ELSE r]
    /\ UNCHANGED <<cfgvars, now, appended, budget, ret, vvars, avars>>

\* the call of thread th ends: it raised an exception or returned val
SweepReturn(th, raised, val) ==
    /\ Goto(th, "done")
    /\ SweepStep(th, [local[th] EXCEPT !.ret = Returned(raised, val)], sessions)

\* ---- get_session_stats ----
\* the generator over self.sessions.values() is made
StatsCall ==
    /\ pc["stats"] = "idle"
    /\ Goto("stats", "sum")
    /\ SweepStep("stats", [local["stats"] EXCEPT
                              !.size = Cardinality(DOMAIN sessions),
                              !.visited = {}, !.total = 0, !.held = {}], sessions)

\* sum(...) takes the next session from the generator and adds len(session.messages)
StatsSum ==
    /\ pc["stats"] = "sum"
    /\ LET l == local["stats"]
           rest == DOMAIN sessions \ l.visited
           sid == FirstKey(rest)
       IN  IF Cardinality(DOMAIN sessions) # l.size
           THEN SweepReturn("stats", "RuntimeError", None)
           ELSE IF rest = {}
           THEN Goto("stats", "count") /\ SweepStep("stats", l, sessions)
           ELSE /\ UNCHANGED pc
                /\ SweepStep("stats", [l EXCEPT
                                          !.visited = @ \cup {sid},
                                          !.total = @ + Len(sessions[sid].messages)],
                             sessions)

\* 'active_sessions': len(self.sessions)
StatsCount ==
    /\ pc["stats"] = "count"
    /\ Goto("stats", "avg_test")
    /\ SweepStep("stats", [local["stats"] EXCEPT !.active = Cardinality(DOMAIN sessions)],
                 sessions)

\* ... if self.sessions else 0
StatsAvgTest ==
    /\ pc["stats"] = "avg_test"
    /\ LET l == local["stats"]
       IN  IF DOMAIN sessions # {}
           THEN Goto("stats", "avg_len") /\ SweepStep("stats", l, sessions)
           ELSE SweepReturn("stats", "-",
                            [active_sessions |-> l.active,
                             total_messages |-> l.total,
                             avg_messages_per_session |-> <<0, 1>>])

\* total_messages / len(self.sessions)
StatsAvgLen ==
    /\ pc["stats"] = "avg_len"
    /\ LET l == local["stats"]
           count == Cardinality(DOMAIN sessions)
       IN  IF count = 0
           THEN SweepReturn("stats", "ZeroDivisionError", None)
           ELSE SweepReturn("stats", "-",
                            [active_sessions |-> l.active,
                             total_messages |-> l.total,
                             avg_messages_per_session |-> <<l.total, count>>])

\* ---- cleanup_expired_sessions ----
\* the list comprehension begins to iterate self.sessions.items()
CleanupCall ==
    /\ pc["cleanup"] = "idle"
    /\ Goto("cleanup", "scan")
    /\ SweepStep("cleanup", [local["cleanup"] EXCEPT
                                !.size = Cardinality(DOMAIN sessions),
                                !.visited = {}, !.expired = <<>>], sessions)

\* the comprehension takes the next item and keeps its id if session.is_expired()
CleanupScan ==
    /\ pc["cleanup"] = "scan"
    /\ LET l == local["cleanup"]
           rest == DOMAIN sessions \ l.visited
           sid == FirstKey(rest)
       IN  IF Cardinality(DOMAIN sessions) # l.size
           THEN SweepReturn("cleanup", "RuntimeError", None)
           ELSE IF rest = {}
           THEN IF l.expired = <<>>
                THEN SweepReturn("cleanup", "-", None)
                ELSE Goto("cleanup", "remove_check") /\ SweepStep("cleanup", l, sessions)
           ELSE /\ UNCHANGED pc
                /\ SweepStep("cleanup", [l EXCEPT
                                            !.visited = @ \cup {sid},
                                            !.expired = IF is_expired(sessions[sid], now)
                                                        THEN Append(@, sid) ELSE @],
                             sessions)

\* ---- get_session("s1") ----
\* session = self.sessions.get(session_id); if session and session.is_expired()
GetSessionCall(th) ==
    /\ pc[th] = "idle"
    /\ IF "s1" \in DOMAIN sessions /\ is_expired(sessions["s1"], now)
       THEN /\ Goto(th, "remove_check")
            /\ SweepStep(th, [local[th] EXCEPT !.expired = <<"s1">>], sessions)
       ELSE SweepReturn(th, "-", IF "s1" \in DOMAIN sessions THEN Ref("s1") ELSE None)

\* ---- remove_session(sid), called by get_session and by the cleanup pass ----
\* if session_id in self.sessions
RemoveSessionCheck(th) ==
    /\ pc[th] = "remove_check"
    /\ LET l == local[th]
       IN  IF Head(l.expired) \in DOMAIN sessions
           THEN Goto(th, "remove_del") /\ SweepStep(th, l, sessions)
           ELSE IF Tail(l.expired) = <<>>
           THEN SweepReturn(th, "-", None)
           ELSE UNCHANGED pc /\ SweepStep(th, [l EXCEPT !.expired = Tail(@)], sessions)

\* del self.sessions[session_id], a KeyError when the key is not there
RemoveSessionDel(th) ==
    /\ pc[th] = "remove_del"
    /\ LET l == local[th]
           sid == Head(l.expired)
       IN  IF sid \notin DOMAIN sessions
           THEN SweepReturn(th, "KeyError", None)
           ELSE /\ Goto(th, IF Tail(l.expired) = <<>> THEN "done" ELSE "remove_check")
                /\ SweepStep(th, [l EXCEPT !.expired = Tail(@)],
                             remove_session(sessions, sid))

\* ---- create_session("s2") ----
\* self.sessions[session_id] = session
CreateSessionCall ==
    /\ pc["create"] = "idle"
    /\ Goto("create", "done")
    /\ SweepStep("create", [local["create"] EXCEPT !.ret = Returned("-", Ref("s2"))],
                 Put(sessions, "s2", NewSession("s2", now)))

SweepNext ==
    \/ StatsCall
    \/ StatsSum
    \/ StatsCount
    \/ StatsAvgTest
    \/ StatsAvgLen
    \/ CleanupCall
    \/ CleanupScan
    \/ \E th \in Getters : GetSessionCall(th)
    \/ \E th \in Removers : RemoveSessionCheck(th)
    \/ \E th \in Removers : RemoveSessionDel(th)
    \/ CreateSessionCall

\* the store holds the session s1 with one or two messages, idle for longer
\* than SESSION_TIMEOUT
SweepInit ==
    /\ MAX_SESSION_MESSAGES = 2
    /\ SESSION_TIMEOUT = 1
    /\ CHUNK_SIZE = 2
    /\ CHUNK_OVERLAP = 1
    /\ now = 2
    /\ \E k \in 1..2 :
          /\ sessions = [sid \in {"s1"} |-> Filled(k)]
          /\ appended = [sid \in {"s1"} |-> Filled(k).messages]
    /\ local = [th \in SweepThreads |->
                   SweepLocals(0, {}, 0, 0, <<>>, Returned("-", None), {})]
    /\ ret = Ret("init", "-", None, {})
    /\ budget = 0
    /\ StoreStart
    /\ directory = <<>>
    /\ AppStart
    /\ pc = [th \in SweepThreads |-> "idle"]

SweepSpec == SweepInit /\ [][SweepNext]_vars

----------------------------------------------------------------------------
(***************************************************************************)
(* Properties of concurrent requests.                                      *)
(***************************************************************************)
\* C11: a search that ran while rebuild_from_directory was running on the
\* same store returns what it would return on the store as it was before the
\* rebuild or on the store as the rebuild leaves it, and raises nothing.
C11_SearchSeesWholeIndex ==
    (pc["search"] = "done" /\ local["search"].overlapped) =>
        LET s == local["search"]
            post == rebuild_from_directory(s.pre, disk, directory, TRUE, "ok").store
        IN  /\ s.ret.raised = "-"
            /\ s.ret.val \in {search(s.pre, s.query, s.k, TRUE),
                              search(post, s.query, s.k, TRUE)}

\* the history after thread x's add_message ran to its end and then thread y's
SerialAppends(x, y) ==
    add_message(add_message(local[x].start, local[x].role, local[x].content, 0, 0),
                local[y].role, local[y].content, 0, 0).messages

\* C12: when two add_message calls on one session have both returned, the
\* history holds at most M messages and is the history one of the two serial
\* orders of the calls leaves: no message lost or duplicated.
C12_ConcurrentAppendsSerialize ==
    (pc["t1"] = "done" /\ pc["t2"] = "done") =>
        /\ Len(sessions["s1"].messages) <= MAX_SESSION_MESSAGES
        /\ sessions["s1"].messages \in {SerialAppends("t1", "t2"),
                                        SerialAppends("t2", "t1")}

----------------------------------------------------------------------------
(***************************************************************************)
(* Properties of a turn.                                                   *)
(***************************************************************************)
\* a request to the backend of turn tn found the backend unreachable
BackendFailed(tn) == \E i \in DOMAIN tn.invocations : tn.invocations[i].failed

\* the texts OllamaClient.chat returns for an unreachable backend
ErrorTexts == {ErrorText(f.kind) : f \in Failures}

\* the messages of role assistant among msgs
AssistantContents(msgs) ==
    {msgs[i].content : i \in {j \in DOMAIN msgs : msgs[j].role = "assistant"}}

\* C13: a turn in which the backend was unreachable in one of its requests
\* (and no other step raised) ends in Fallback and returns the response
\* generate_fallback_response selects for the user message; the error text of
\* the backend is not returned and not appended to the session.
C13_UnreachableBackendFallsBack ==
    (turn # None /\ BackendFailed(turn[1]) /\ turn[1].outcome # "error") =>
        /\ turn[1].outcome = "fallback"
        /\ turn[1].reply = generate_fallback_response(turn[1].user_message)
        /\ turn[1].reply \notin ErrorTexts
        /\ AssistantContents(appended[turn[1].session_id]) \cap ErrorTexts = {}

C15_NeverRaises ==
    turn # None =>
        /\ turn[1].outcome # "raised"
        /\ turn[1].exception # "-" =>
              /\ turn[1].outcome = "error"
              /\ turn[1].reply = MODEL_ERROR
              /\ ret.val = Some(MODEL_ERROR)

\* a turn whose tool pass raised, after the first reply of the backend
C15_Witness ==
    /\ turn # None
    /\ turn[1].exception = "tool_pass"
    /\ Len(turn[1].invocations) = 1
    /\ ret.val = Some(MODEL_ERROR)

\* the messages appended so far to the Session object a turn of session sid
\* finds or creates
AppendedBefore(sid) ==
    IF sid \in DOMAIN sessions /\ ~is_expired(sessions[sid], now)
    THEN appended[sid] ELSE <<>>

\* C16: a turn that ends in Done appended to its session its user message and
\* then, once, the reply it returns as an assistant message, and nothing
\* else; the reply is the text of the turn's last request to the backend,
\* which is the second one when tool calls were dispatched.
C16_ReplyAppendedOnce ==
    [][(ret'.op = "generate_response" /\ turn'[1].outcome = "done") =>
          LET tn == turn'[1]
              sid == tn.session_id
              msgs == sessions'[sid].messages
          IN  /\ appended'[sid] =
                    AppendedBefore(sid) \o <<Message("user", tn.user_message, now),
                                             Message("assistant", tn.reply, now)>>
              /\ msgs[Len(msgs)] = Message("assistant", tn.reply, now)
              /\ ret'.val = Some(tn.reply)
              /\ tn.reply = tn.invocations[Len(tn.invocations)].text
              /\ Len(tn.invocations) = IF tn.tool_calls # <<>> THEN 2 ELSE 1
              /\ \A other \in DOMAIN sessions \ {sid} :
                    /\ sessions'[other] = sessions[other]
                    /\ appended'[other] = appended[other]]_vars

\* a turn of the session of an earlier turn that dispatched tool calls and
\* ended in Done with the second reply
C16_Witness ==
    /\ turn # None
    /\ turn[1].outcome = "done"
    /\ turn[1].session_id = "s1"
    /\ turn[1].tool_calls # <<>>
    /\ turn[1].reply = <<"Done", ".">>
    /\ Len(appended["s1"]) = 4
    /\ appended["s1"][4] = Message("assistant", <<"Done", ".">>, now)

\* the number of calls of tool name among calls
CountTool(calls, name) == Cardinality({i \in DOMAIN calls : calls[i].tool = name})

\* C17: every turn ends in one of the outcomes Done, Fallback and generic
\* error, after at most two requests to the backend and at most one tool
\* pass: a request that found the backend unreachable is the turn's last
\* one, the calls dispatched are those of the first reply, each with one
\* result, and the calls of the second reply create no ticket.
C17_TurnIsBounded ==
    [][ret'.op = "generate_response" =>
          LET tn == turn'[1]
              n == Len(tn.invocations)
          IN  /\ tn.outcome \in {"done", "fallback", "error"}
              /\ n <= 2
              /\ \A i \in 1..n : tn.invocations[i].failed => i = n
              /\ n = 2 => /\ tn.tool_calls # <<>>
                          /\ tn.tool_calls = extract_tool_calls(tn.invocations[1].text)
              /\ n < 2 => tn.tool_calls = <<>>
              /\ Len(tn.tool_results) = Len(tn.tool_calls)
              /\ Len(tickets') =
                    Len(tickets) +
                    (IF "create_ticket" \in tn.env.broken THEN 0
                     ELSE CountTool(tn.tool_calls, "create_ticket"))]_vars

\* a turn whose second reply holds a call: the ticket of the first reply is
\* the only one
C17_Witness ==
    /\ turn # None
    /\ turn[1].outcome = "done"
    /\ Len(turn[1].invocations) = 2
    /\ extract_tool_calls(turn[1].reply) # <<>>
    /\ Len(turn[1].tool_calls) = 1
    /\ Len(tickets) = 1

\* the contents of the messages of role among messages
ContentsOf(messages, role) ==
    {messages[i].content : i \in {j \in DOMAIN messages : messages[j].role = role}}

\* the contents the text sent to the backend is made of
SentContents(invocation) == {invocation.sent[i][2] : i \in DOMAIN invocation.sent}

\* C18: the text sent to the backend by every request of a turn holds the
\* system instructions and the content of the user-role message, which for
\* the second request is the composed prompt with the tool results.
C18_PromptIsSent ==
    turn # None =>
        \A i \in DOMAIN turn[1].invocations :
            LET invocation == turn[1].invocations[i]
            IN  /\ SYSTEM_PROMPT \in SentContents(invocation)
                /\ ContentsOf(invocation.messages, "user") # {}
                /\ ContentsOf(invocation.messages, "user") \subseteq
                      SentContents(invocation)

----------------------------------------------------------------------------
(***************************************************************************)
(* Properties of the extraction and the dispatch of tool calls.            *)
(***************************************************************************)
\* the invocations written in a reply, in the order of the text
RECURSIVE Written(_)
Written(segments) ==
    IF segments = <<>> THEN <<>>
    ELSE (IF segments[1].tool # "-"
          THEN <<ToolCall(segments[1].tool, segments[1].args)>> ELSE <<>>)
         \o Written(Tail(segments))

\* the number of times x occurs in the sequence s
Occurrences(s, x) == Cardinality({i \in DOMAIN s : s[i] = x})

\* the kinds of result a dispatch of a tool returns
ResultKinds(tool) ==
    CASE tool = "create_ticket" -> {"created"}
      [] tool = "check_order_status" ->
            {"provide_order_id", "order_status", "order_not_found"}
      [] tool = "search_knowledge_base" ->
            {"provide_query", "knowledge_base_results", "no_relevant_information"}

C20_ArgumentsAsWritten ==
    pc["main"] # "reply" =>
        LET written == Written(local["main"].segments)
            tool_calls == local["main"].tool_calls
        IN  \A call \in Range(written) \cup Range(tool_calls) :
                Occurrences(tool_calls, call) = Occurrences(written, call)

----------------------------------------------------------------------------
(***************************************************************************)
(* Properties of the dispatch of a tool call.                              *)
(***************************************************************************)
\* the call reaches a collaborator: it is a call of create_ticket, or it
\* has the argument its tool looks up
ReachesCollaborator(call) ==
    \/ call.tool = "create_ticket"
    \/ call.tool = "check_order_status" /\ "order_id" \in DOMAIN call.args
    \/ call.tool = "search_knowledge_base" /\ "query" \in DOMAIN call.args

\* C21: in a turn whose first reply holds tool calls, a call whose
\* collaborator raises yields the error string that names its tool, every
\* other call of the reply is dispatched and yields a result of its own
\* tool, and the turn makes its second request to the backend with all the
\* results.
C21_DispatchIsFaultIsolated ==
    (turn # None /\ turn[1].exception = "-" /\ turn[1].tool_calls # <<>>) =>
        LET tn == turn[1]
        IN  /\ Len(tn.tool_results) = Len(tn.tool_calls)
            /\ \A i \in DOMAIN tn.tool_calls :
                  IF tn.tool_calls[i].tool \in tn.env.broken
                     /\ ReachesCollaborator(tn.tool_calls[i])
                  THEN tn.tool_results[i] =
                          Result("error_executing", tn.tool_calls[i].tool, <<>>)
                  ELSE tn.tool_results[i].kind \in ResultKinds(tn.tool_calls[i].tool)
            /\ Len(tn.invocations) = 2
            /\ tn.invocations[2].messages[2].content.tool_results = tn.tool_results

\* a turn of three calls in which the order lookup raised: the ticket is
\* created, the search has its result, the second reply is returned
C21_Witness ==
    /\ turn # None
    /\ turn[1].env.broken = {"check_order_status"}
    /\ Len(turn[1].tool_calls) = 3
    /\ {turn[1].tool_results[i].kind : i \in 1..3} =
          {"created", "error_executing", "knowledge_base_results"}
    /\ turn[1].outcome = "done"
    /\ turn[1].reply = <<"Done", ".">>

----------------------------------------------------------------------------
(***************************************************************************)
(* Properties of a single dispatch.                                        *)
(***************************************************************************)
\* the call execute_tool_call has just returned from, and its result
DispatchedCall == local["main"].tool_call
DispatchedEnv == local["main"].env
DispatchedResult == local["main"].result
HasReturned == pc["main"] = "returned"

KnownTools == {ToolNames[i] : i \in DOMAIN ToolNames}

\* C22: a dispatch of a tool name that is none of create_ticket,
\* check_order_status, search_knowledge_base returns the "Unknown tool" string
\* that names the tool, raises nothing, and leaves the tickets, the index with
\* its documents, the files and the sessions as they were.
C22_UnknownToolChangesNothing ==
    [][(DispatchedCall'.tool \notin KnownTools) =>
          /\ DispatchedResult' = Result("unknown_tool", DispatchedCall'.tool, <<>>)
          /\ UNCHANGED <<tickets, index, documents, dimension, disk, sessions>>]_vars

C22_Witness ==
    /\ HasReturned
    /\ DispatchedCall.tool = "Create_Ticket"
    /\ DispatchedEnv.broken # {}
    /\ DispatchedResult = Result("unknown_tool", "Create_Ticket", <<>>)
    /\ tickets = <<>>

\* the ticket a dispatch has just stored
NewTicket == tickets[Len(tickets)]

\* C23: a dispatch with a missing argument raises nothing and calls no
\* collaborator with an absent value: check_order_status without order_id
\* returns the "provide an order ID" string without a lookup (also when a
\* lookup would raise), search_knowledge_base without query returns the
\* "provide a search query" string without a search, and create_ticket
\* stores one ticket whose absent description, priority and category are
\* 'No description provided', medium and general.
C23_MissingArgumentsUseDefaults ==
    [][LET call == DispatchedCall'
           given(key) == key \in DOMAIN call.args
       IN  /\ (call.tool = "check_order_status" /\ ~given("order_id")) =>
                 /\ DispatchedResult' = Result("provide_order_id", <<>>, <<>>)
                 /\ UNCHANGED tickets
           /\ (call.tool = "search_knowledge_base" /\ ~given("query")) =>
                 /\ DispatchedResult' = Result("provide_query", <<>>, <<>>)
                 /\ UNCHANGED tickets
           /\ (call.tool = "create_ticket" /\ "create_ticket" \notin DispatchedEnv'.broken) =>
                 /\ DispatchedResult'.kind = "created"
                 /\ Len(tickets') = Len(tickets) + 1
                 /\ SubSeq(tickets', 1, Len(tickets)) = tickets
                 /\ ~given("description") =>
                       NewTicket'.description = <<"No description provided">>
                 /\ ~given("priority") => NewTicket'.priority = <<"medium">>
                 /\ ~given("category") => NewTicket'.category = <<"general">>
                 /\ given("description") =>
                       NewTicket'.description = call.args["description"]]_vars

C23_Witness ==
    /\ HasReturned
    /\ DispatchedCall = ToolCall("check_order_status", NoArgs)
    /\ DispatchedEnv.broken # {}
    /\ DispatchedResult.kind = "provide_order_id"
    /\ Len(tickets) = 1
    /\ tickets[1].description = <<"No description provided">>
    /\ tickets[1].priority = <<"medium">>
    /\ tickets[1].category = <<"general">>

\* C24: create_ticket rejects nothing: a priority outside low, medium, high is
\* stored as medium, a category outside technical, billing, general, other is
\* stored as general, a value inside the set is stored as given, and every
\* ticket held has a priority and a category of those sets and status open.
C24_TicketsAreValid ==
    [][/\ \A i \in DOMAIN tickets' :
             /\ tickets'[i].priority \in Priorities
             /\ tickets'[i].category \in Categories
             /\ tickets'[i].status = "open"
       /\ (DispatchedCall'.tool = "create_ticket"
           /\ "create_ticket" \notin DispatchedEnv'.broken) =>
             LET priority == Get(DispatchedCall'.args, "priority", <<"medium">>)
                 category == Get(DispatchedCall'.args, "category", <<"general">>)
             IN  /\ Len(tickets') = Len(tickets) + 1
                 /\ NewTicket'.priority =
                       IF priority \in Priorities THEN priority ELSE <<"medium">>
                 /\ NewTicket'.category =
                       IF category \in Categories THEN category ELSE <<"general">>]_vars

C24_Witness ==
    /\ HasReturned
    /\ DispatchedCall.tool = "create_ticket"
    /\ DispatchedCall.args = [description |-> <<"jam">>, priority |-> <<"urgent">>,
                              category |-> <<"sales">>]
    /\ Len(tickets) = 2
    /\ tickets[1].priority = <<"low">>
    /\ tickets[1].category = <<"billing">>
    /\ tickets[2].priority = <<"medium">>
    /\ tickets[2].category = <<"general">>
    /\ tickets[2].status = "open"

\* the stored ids that equal the id asked for when letter case is ignored
SameIgnoringCase(orders, order_id) ==
    {stored \in orders : Len(order_id) = 1 /\ Upper(stored) = Upper(order_id[1])}

\* C25: whatever the order store holds (the sample orders or the orders of
\* the storage file), a lookup that reaches get_order returns the stored order
\* whose id equals the id asked for ignoring letter case, and the not-found
\* string with the id as given exactly when no stored id equals it ignoring
\* case.
C25_LookupIgnoresCase ==
    (/\ HasReturned
     /\ DispatchedCall.tool = "check_order_status"
     /\ "order_id" \in DOMAIN DispatchedCall.args
     /\ DispatchedEnv.broken = {}) =>
        LET order_id == DispatchedCall.args["order_id"]
            same == SameIgnoringCase(DispatchedEnv.orders, order_id)
        IN  IF same = {}
            THEN DispatchedResult = Result("order_not_found", order_id, <<>>)
            ELSE /\ DispatchedResult.kind = "order_status"
                 /\ DispatchedResult.arg \in same

----------------------------------------------------------------------------
(***************************************************************************)
(* Properties of chunk_text.                                               *)
(***************************************************************************)
ValidChunking == 0 <= CHUNK_OVERLAP /\ CHUNK_OVERLAP < CHUNK_SIZE
ChunkingDone == pc["main"] = "done"

\* the positions of words a window holds
Positions(window) == (window[1] + 1)..window[2]

\* what chunk_text returned is made of windows of at most CHUNK_SIZE words
\* that start at the first word, end at the last, move forward, and of which
\* each shares exactly CHUNK_OVERLAP words with the next
WindowsCover(l) ==
    /\ Len(l.windows) = Len(l.chunks)
    /\ \A i \in DOMAIN l.chunks :
          /\ l.chunks[i] = SubSeq(l.words, l.windows[i][1] + 1, l.windows[i][2])
          /\ Len(l.chunks[i]) \in 1..CHUNK_SIZE
    /\ \A j \in DOMAIN l.words : \E i \in DOMAIN l.windows : j \in Positions(l.windows[i])
    /\ \A i \in 1..(Len(l.windows) - 1) :
          /\ l.windows[i][1] < l.windows[i + 1][1]
          /\ l.windows[i][2] < l.windows[i + 1][2]
          /\ Cardinality(Positions(l.windows[i]) \cap Positions(l.windows[i + 1]))
                = CHUNK_OVERLAP

\* C26: with 0 <= CHUNK_OVERLAP < CHUNK_SIZE, chunk_text returns on every
\* text; what it returns is a function of the text and the two settings (the
\* value of the operator chunk_text), its chunks have at most CHUNK_SIZE
\* words, their windows cover every word in order, consecutive windows share
\* exactly CHUNK_OVERLAP words, and a text that is empty or only white space
\* yields no chunk.
C26_ChunkTextCovers ==
    /\ ValidChunking ~> ChunkingDone
    /\ [](ValidChunking /\ ChunkingDone =>
             /\ local["main"].chunks = chunk_text(split(local["main"].text))
             /\ WindowsCover(local["main"])
             /\ split(local["main"].text) = <<>> => local["main"].chunks = <<>>)

C26_Witness ==
    /\ ChunkingDone
    /\ CHUNK_SIZE = 2
    /\ CHUNK_OVERLAP = 1
    /\ local["main"].text = <<"reset", " ", "billing", "reset">>
    /\ local["main"].chunks = <<<<"reset", "billing">>, <<"billing", "reset">>>>
    /\ local["main"].windows = <<<<0, 2>>, <<1, 3>>>>

\* C27: a configuration with CHUNK_OVERLAP >= CHUNK_SIZE is refused before
\* any text is chunked: the loop of chunk_text never runs under one, so the
\* loop is never run with a cursor that does not advance.
C27_StuckCursorNeverLoops ==
    ~(CHUNK_OVERLAP >= CHUNK_SIZE /\ pc["main"] = "while")

----------------------------------------------------------------------------
(***************************************************************************)
(* Properties of search.                                                   *)
(***************************************************************************)
\* the squared distance of a result's chunk to the query
DistanceOf(result, query) == L2Sqr(Encode(result.doc.text), Encode(query))

\* the (distance, label) pairs faiss returns to search(query, k) on st
HitsOf(st, query, k) ==
    IF st.index = None \/ Len(st.documents) = 0 THEN <<>>
    ELSE IndexSearch(st.index[1], Encode(query), Min(k, Len(st.documents)))

\* search(query, k) on st returns min(k, n) results, each the chunk of a
\* stored position no other result has, scored 1 / (1 + its squared distance
\* to the query), nearest first
SearchIsTopK(st, query, k) ==
    LET results == search(st, query, k, TRUE)
        hits == HitsOf(st, query, k)
    IN  /\ Len(results) = Min(k, Len(st.documents))
        /\ Len(hits) = Len(results)
        /\ \A i \in DOMAIN results :
              /\ hits[i].idx \in 0..(Len(st.documents) - 1)
              /\ results[i].doc = st.documents[hits[i].idx + 1]
              /\ results[i].similarity_score = <<1, 1 + DistanceOf(results[i], query)>>
              /\ \A j \in DOMAIN results : i < j =>
                    /\ hits[i].idx # hits[j].idx
                    /\ DistanceOf(results[i], query) <= DistanceOf(results[j], query)
                    /\ results[i].similarity_score[2] <= results[j].similarity_score[2]

\* C28: in every state of the store, search(query, k) with the query embedded
\* returns exactly min(k, n) results for the n chunks held, in order of
\* non-decreasing squared distance to the query, each a distinct stored chunk
\* with its similarity score, the scores non-increasing; none when the store
\* is empty.
C28_SearchReturnsTopK ==
    \A query \in Queries, k \in Ks : SearchIsTopK(TheStore, query, k)

----------------------------------------------------------------------------
(***************************************************************************)
(* Properties of the order of extraction and dispatch.                     *)
(***************************************************************************)
\* the place of a tool among the three patterns of extract_tool_calls
Rank(tool) == CHOOSE i \in DOMAIN ToolNames : ToolNames[i] = tool

\* the calls of one tool in a sequence of calls, in its order
OfTool(calls, tool) ==
    LET IsOfTool(call) == call.tool = tool
    IN  SelectSeq(calls, IsOfTool)

\* the reply is written so that every call is extracted with its arguments
ExtractedAsWritten(segments, tool_calls) ==
    \A call \in Range(Written(segments)) \cup Range(tool_calls) :
        Occurrences(tool_calls, call) = Occurrences(Written(segments), call)

\* C29: in the list extract_tool_calls returns, every create_ticket call
\* precedes every check_order_status call, which precedes every
\* search_knowledge_base call, wherever they stand in the reply; the calls of
\* one tool stand in the order they are written in (for replies whose calls
\* are extracted as written); and the loop dispatches in the order of the
\* list: the i-th result is of the i-th call, the i-th call, when a
\* create_ticket, stores the i-th ticket.
C29_OrderByToolThenPosition ==
    pc["main"] # "reply" =>
        LET segments == local["main"].segments
            tool_calls == local["main"].tool_calls
            tool_results == local["main"].tool_results
        IN  /\ \A i, j \in DOMAIN tool_calls :
                  i < j => Rank(tool_calls[i].tool) <= Rank(tool_calls[j].tool)
            /\ ExtractedAsWritten(segments, tool_calls) =>
                  \A n \in DOMAIN ToolNames :
                      OfTool(tool_calls, ToolNames[n]) = OfTool(Written(segments), ToolNames[n])
            /\ pc["main"] = "dispatched" =>
                  /\ Len(tool_results) = Len(tool_calls)
                  /\ \A i \in DOMAIN tool_calls :
                        /\ tool_results[i].kind \in ResultKinds(tool_calls[i].tool)
                        /\ tool_calls[i].tool = "create_ticket" =>
                              /\ tool_results[i].arg = <<"TK", i>>
                              /\ tickets[i].description =
                                    Get(tool_calls[i].args, "description",
                                        <<"No description provided">>)
                        /\ tool_calls[i].tool = "check_order_status" =>
                              tool_results[i].kind =
                                  IF "order_id" \in DOMAIN tool_calls[i].args
                                  THEN "order_status" ELSE "provide_order_id"

\* a reply with a search written before a ticket, and one with the order
\* lookup without an id written before the lookup of ord-001
C29_Witness ==
    /\ pc["main"] = "dispatched"
    /\ Len(local["main"].segments) = 2
    /\ local["main"].segments[1].tool = "search_knowledge_base"
    /\ local["main"].segments[2].tool = "create_ticket"
    /\ local["main"].tool_calls[1].tool = "create_ticket"
    /\ local["main"].tool_calls[2].tool = "search_knowledge_base"
    /\ local["main"].tool_results[1].kind = "created"
    /\ local["main"].tool_results[2].kind = "knowledge_base_results"

----------------------------------------------------------------------------
(***************************************************************************)
(* Properties of the second request of a turn.                             *)
(***************************************************************************)
\* the content of the user-role message handed to the i-th request
UserContent(tn, i) == tn.invocations[i].messages[2].content

\* the turn made one request and returned its reply
OneInvocation(tn) ==
    /\ Len(tn.invocations) = 1
    /\ tn.outcome = "done"
    /\ tn.reply = tn.invocations[1].text

\* the turn made exactly two requests, the second on the prompt of the first
\* followed by the results of its calls in the order of dispatch
SecondInvocation(tn) ==
    /\ Len(tn.invocations) = 2
    /\ Len(tn.tool_results) = Len(tn.tool_calls)
    /\ UserContent(tn, 1).tool_results = <<>>
    /\ UserContent(tn, 2) = [UserContent(tn, 1) EXCEPT !.tool_results = tn.tool_results]

\* C30: a turn whose first reply yields n >= 1 tool calls invokes the
\* backend a second time exactly once, and the prompt the backend gets then
\* is the composed prompt followed by the n results in the order of
\* dispatch; a turn whose first reply yields no tool call makes no second
\* request and returns the first reply.
C30_SecondInvocationCarriesResults ==
    (turn # None /\ turn[1].exception = "-" /\ turn[1].invocations # <<>>) =>
        IF turn[1].tool_calls = <<>>
        THEN OneInvocation(turn[1])
        ELSE /\ SecondInvocation(turn[1])
             /\ UserContent(turn[1], 2) \in SentContents(turn[1].invocations[2])

----------------------------------------------------------------------------
(***************************************************************************)
(* Properties of the composition of the prompt.                            *)
(***************************************************************************)
\* the messages the session of sid holds when a turn starts at clock reading t
PriorMessages(map, sid, t) == get_or_create_session(map, sid, t).sessions[sid].messages

\* the texts of the chunks the retrieval of a turn returns
ContextOf(st, tn) ==
    LET context_docs == search(st, tn.user_message, MAX_RETRIEVED_DOCS, tn.env.ok)
    IN  [i \in 1..Len(context_docs) |-> context_docs[i].doc.text]

\* the role and content of each message
Lines(messages) == [i \in DOMAIN messages |-> <<messages[i].role, messages[i].content>>]

\* the prompt of a turn is of the form its context and the messages held
\* before it select
ComposedFrom(p, context, prior, user_message) ==
    /\ p.message = user_message
    /\ p.tool_results = <<>>
    /\ (context # <<>> /\ prior # <<>>) =>
          /\ p.template = "CHAT_WITH_CONTEXT_TEMPLATE"
          /\ p.context = context
          /\ p.history # <<>>
          /\ \A i \in DOMAIN p.history : p.history[i] \in Range(Lines(prior))
          /\ Len(prior) < MAX_SESSION_MESSAGES => p.history = Lines(prior)
    /\ (context # <<>> /\ prior = <<>>) =>
          p = Prompt("RAG_PROMPT_TEMPLATE", <<>>, context, user_message)
    /\ context = <<>> => p = Prompt("-", <<>>, <<>>, user_message)

\* C31: the prompt of a turn has exactly one of three forms: the template of
\* history, context and message when the retrieval returned context and the
\* session held messages before the turn, the template of context and
\* question when there is context and no earlier message, the user message
\* alone when there is no context; the history holds earlier messages only,
\* not the user message of the turn.
C31_PromptHasOneOfThreeForms ==
    [][(turn' # None /\ turn'[1].invocations # <<>>) =>
          ComposedFrom(UserContent(turn'[1], 1), ContextOf(TheStore, turn'[1]),
                       PriorMessages(sessions, turn'[1].session_id, now),
                       turn'[1].user_message)]_vars

C31_Witness ==
    /\ turn # None
    /\ turn[1].session_id = "s1"
    /\ turn[1].invocations # <<>>
    /\ UserContent(turn[1], 1).template = "CHAT_WITH_CONTEXT_TEMPLATE"
    /\ UserContent(turn[1], 1).history =
          <<<<"user", <<"hello">>>>, <<"assistant", <<"Sure", ".">>>>>>
    /\ UserContent(turn[1], 1).context # <<>>
    /\ UserContent(turn[1], 1).message = <<"reset", "password">>

----------------------------------------------------------------------------
(***************************************************************************)
(* Properties of the cleanup pass.                                         *)
(***************************************************************************)
\* the calls that take the session of an id out of the store
RemovingCalls == {"get_session", "get_or_create_session", "create_session",
                  "remove_session", "cleanup_expired_sessions"}

\* C32: a cleanup pass removes exactly the sessions with
\* now - last_activity > SESSION_TIMEOUT and leaves every other session as
\* it was; an expired session stays in the store, unchanged, while time
\* passes and while other calls are made, until a get on its id, a cleanup
\* pass, or a call that removes or replaces the session of its id.
C32_CleanupRemovesExactlyExpired ==
    [][/\ Call("cleanup_expired_sessions", CleanupExpiredSessions) =>
             /\ DOMAIN sessions' = DOMAIN sessions \ ExpiredIds
             /\ \A sid \in DOMAIN sessions' : sessions'[sid] = sessions[sid]
       /\ \A sid \in ExpiredIds :
             \/ sid \in DOMAIN sessions' /\ sessions'[sid] = sessions[sid]
             \/ ret'.op \in RemovingCalls /\ ret'.sid \in {sid, "-"}
             \/ ret'.op = "add_message" /\ ret'.sid = sid /\ sid \in DOMAIN sessions'
       /\ now' # now => DOMAIN sessions' = DOMAIN sessions]_vars

\* a cleanup pass that removed one session and kept another, which was idle
\* for exactly the timeout
C32_Witness ==
    /\ ret.op = "cleanup_expired_sessions"
    /\ \E sid \in SessionIds : ret.log = {<<"Removed session", sid>>}
    /\ \E sid \in DOMAIN sessions : now - sessions[sid].last_activity = SESSION_TIMEOUT

----------------------------------------------------------------------------
(***************************************************************************)
(* Properties of the artifacts on disk.                                    *)
(***************************************************************************)
\* C33: whenever a vector artifact is on disk, the metadata artifact is
\* there as well, the two were written by one save() of one store state, and
\* the vectors written are as many as the chunks written: no save, whether it
\* ends well or fails partway, leaves a new vector artifact beside an old, a
\* missing or an unequal metadata artifact.
C33_ArtifactsAreConsistent ==
    disk.index # None =>
        /\ disk.metadata # None
        /\ saved # None
        /\ disk.index = Some(write_index(saved[1].index[1]))
        /\ disk.metadata = Some(MetadataFile(saved[1]))
        /\ disk.index[1].ntotal = Len(disk.metadata[1].documents)

----------------------------------------------------------------------------
(***************************************************************************)
(* Properties of the session store under threads.                          *)
(***************************************************************************)
\* what get_session_stats returns on the map m
StatsOf(m) == get_session_stats(m)

\* C34: cleanup_expired_sessions and get_session_stats running beside
\* creations and expiry-removals raise nothing, get_session_stats reports the
\* statistics of a map the store held while it ran, and two expiry-removals
\* of the same id raise nothing and leave the id absent.
C34_SweepsAreSafeUnderThreads ==
    /\ \A th \in SweepThreads : pc[th] = "done" => local[th].ret.raised = "-"
    /\ pc["stats"] = "done" =>
          \E m \in local["stats"].held : local["stats"].ret.val = StatsOf(m)
    /\ (\A th \in Getters : pc[th] = "done") => "s1" \notin DOMAIN sessions

----------------------------------------------------------------------------
(***************************************************************************)
(* Properties of the names of the extracted calls.                         *)
(***************************************************************************)
\* the reply names something that is no tool as if it were invoked
NamesNoTool(segments) ==
    \E i \in DOMAIN segments : segments[i].text[1] = "delete_account"

\* C35: every tool call extract_tool_calls returns names one of the three
\* tools, and no dispatch of the turn returns the "Unknown tool" result,
\* whatever the reply holds.
C35_ExtractedNamesAreKnown ==
    /\ pc["main"] \in {"extracted", "dispatched"} =>
          \A i \in DOMAIN local["main"].tool_calls :
             local["main"].tool_calls[i].tool \in KnownTools
    /\ pc["main"] = "dispatched" =>
          \A i \in DOMAIN local["main"].tool_results :
             local["main"].tool_results[i].kind # "unknown_tool"

\* a reply that writes delete_account(...) and an invocation of a tool: one
\* call is extracted and dispatched
C35_Witness ==
    /\ pc["main"] = "dispatched"
    /\ NamesNoTool(local["main"].segments)
    /\ Len(local["main"].segments) = 2
    /\ Len(local["main"].tool_calls) = 1
    /\ Len(local["main"].tool_results) = 1

----------------------------------------------------------------------------
(***************************************************************************)
(* Properties of what a turn leaves in its session.                        *)
(***************************************************************************)
\* the messages appended to the session sid so far
AppendedTo(hist, sid) == IF sid \in DOMAIN hist THEN hist[sid] ELSE <<>>

\* the messages the step appended to the session sid
NewlyAppended(sid) ==
    LET before == AppendedTo(appended, sid)
        after == AppendedTo(appended', sid)
    IN  [i \in 1..(Len(after) - Len(before)) |-> after[Len(before) + i]]

\* the turn is one that is to leave no reply in its session: the backend was
\* unreachable in one of its requests, or it ended in the generic error
LeavesNoReply(tn) == BackendFailed(tn) \/ tn.outcome \in {"fallback", "error"}

----------------------------------------------------------------------------
(***************************************************************************)
(* Properties of the positions search resolves.                            *)
(***************************************************************************)
\* the pairs of hits that name a vector of the index with a chunk at its
\* position; the label of a slot the index could not fill is -1
NeighboursOf(hits, docs) ==
    LET IsNeighbour(h) == h.idx >= 0 /\ h.idx < Len(docs)
    IN  SelectSeq(hits, IsNeighbour)

\* C37: in every state of the store, the results of search(query, k) are the
\* chunks at the positions of the vectors the index returned as neighbours,
\* one for each, in their order: a slot the index left unfilled (label -1)
\* gives no result.
C37_ResultsAreNeighbours ==
    \A query \in Queries, k \in Ks :
       LET results == search(TheStore, query, k, TRUE)
           neighbours == NeighboursOf(HitsOf(TheStore, query, k), documents)
       IN  /\ Len(results) = Len(neighbours)
           /\ \A i \in DOMAIN results :
                 results[i].doc = documents[neighbours[i].idx + 1]

----------------------------------------------------------------------------
(***************************************************************************)
(* Properties of concurrent rebuilds.                                      *)
(***************************************************************************)
\* the store a rebuild that runs alone leaves
SingleRebuild ==
    rebuild_from_directory(TheStore, disk, directory, TRUE, "ok").store

\* C38: once two rebuild_from_directory calls that ran at the same time have
\* both returned, the store holds the chunks and as many vectors as a single
\* rebuild leaves: no chunk twice, and as many vectors as chunks.
C38_ConcurrentRebuildsAsOne ==
    (\A th \in Rebuilders : pc[th] = "done") =>
        /\ documents = SingleRebuild.documents
        /\ NTotal(index) = NTotal(SingleRebuild.index)
        /\ NTotal(index) = Len(documents)

====
